---------------------------- MODULE Spec2Model ----------------------------
(***************************************************************************)
(* A model of the endail/hx711 driver.                                     *)
(*                                                                         *)
(* The source holds two revisions of the asynchronous sampler:             *)
(*   - the watcher built into the driver (src/src/HX711.cpp): variables    *)
(*     hx_*, specification SpecHX;                                         *)
(*   - the separate Watcher with its ValueStack, used by AdvancedHX711     *)
(*     (src/src/Watcher.cpp, AdvancedHX711.cpp, ValueStack.cpp):           *)
(*     variables wx_*, specification SpecWX;                               *)
(* and the scale engine (src/src/AbstractScale.cpp): variables sc_*,       *)
(* specification SpecScale.  The bit-level protocol (HX711::_readRawBytes, *)
(* powerDown) is modelled pulse by pulse under SpecComm.                   *)
(*                                                                         *)
(* Every specification ranges over all variables; the ones a               *)
(* specification does not use are parked at their initial value.           *)
(***************************************************************************)
EXTENDS Integers, Sequences, FiniteSets

VARIABLES
    \* ---- scale engine (AbstractScale) ----
    sc_refUnit,     \* AbstractScale::_refUnit
    sc_offset,      \* AbstractScale::_offset
    sc_last,        \* the last call made on the scale and how it ended
    sc_prevZeroX    \* {X} when the call before sc_last was a successful zero
                    \* on an input constant at X, NoConst otherwise

VARIABLES
    \* ---- the chip, as the sampler sees it ----
    chipReady,      \* DOUT is low: a conversion is ready for retrieval
    chipSeq,        \* number of conversions the chip has made ready so far;
                    \* the conversion made ready as number k reads as value k
    chipDead        \* the chip never signals ready again

VARIABLES
    \* ---- the watcher built into the driver (src/src/HX711.cpp) ----
    hx_watchState,  \* HX711::_watchState
    hx_pinWatchLock,\* owner of HX711::_pinWatchLock (the state lock)
    hx_readyLock,   \* owner of HX711::_readyLock (the data-ready lock)
    hx_lastVal,     \* HX711::_lastVal
    hx_wpc,         \* where the watcher thread is in HX711::_watchPin
    hx_fpc,         \* where the foreground caller is
    hx_len,         \* getValues: len
    hx_arr,         \* getValues: what has been written to arr so far
    hx_signal,      \* the caller's wait on _dataReady: none, notified, timeout
    hx_result,      \* how the caller's last getValues call ended
    hx_destroyed    \* HX711::~HX711 has returned

VARIABLES
    \* ---- the separate Watcher (src/src/Watcher.cpp) and its consumer
    \*      AdvancedHX711 (src/src/AdvancedHX711.cpp) ----
    now,            \* steady_clock / high_resolution_clock, in ticks
    wx_watchState,  \* Watcher::_watchState
    wx_pinWatchLock,\* owner of Watcher::_pinWatchLock (the state lock)
    wx_valuesLock,  \* owner of Watcher::valuesLock
    wx_values,      \* Watcher::values, the ValueStack's _container, front first
    wx_prio,        \* the priority last requested for the watcher thread
    wx_wpc,         \* where the watcher thread is in Watcher::_watchPin
    wx_v,           \* _watchPin: Value v
    wx_whenExceeded,\* _recoverHX711: whenExceeded
    wx_gpioOps,     \* flips at every driver call or push the watcher makes
    wx_fpc,         \* where the foreground caller is
    wx_call,        \* the getValues overload under way: samples or timeout
    wx_samples,     \* getValues(samples): samples
    wx_endTime,     \* getValues(timeout): endTime
    wx_vals,        \* getValues: vals
    wx_result,      \* how the caller's last call ended
    wx_destroyed,   \* AdvancedHX711::~AdvancedHX711 has returned
    \* ---- the pins and the chip behind them, two calling threads ----
    cm_commLock,    \* HX711::_commLock: its owner or NoOwner
    cm_clock,       \* level of the clock pin (PD_SCK)
    cm_bitFormat,   \* HX711::_bitFormat
    cm_byteFormat,  \* HX711::_byteFormat
    cm_chipOff,     \* the chip is in power-down mode
    cm_chipReady,   \* a conversion is ready or being shifted out
    cm_chipEdge,    \* rising clock edges seen in this conversion
    cm_chipWord,    \* the 24-bit word of this conversion
    cm_pc,          \* per thread: position in its driver call
    cm_n,           \* per thread: pulses made by _readRawBytes so far
    cm_raw,         \* per thread: raw[] of _readRawBytes
    cm_bit,         \* per thread: the bit _readBit has just read
    cm_frame,       \* per thread: the conversion the read started on, if any
    \* ---- HX711::setConfig ----
    hx_channel,     \* HX711::_channel
    hx_gain,        \* HX711::_gain
    hx_rate,        \* HX711::_rate
    cfg_pc,         \* position of the setConfig call: idle or in getValue()
    cfg_c,          \* parameter c of the last setConfig call
    cfg_g,          \* parameter g of the last setConfig call
    cfg_backup,     \* backupChannel, backupGain
    cfg_pre,        \* channel, gain and watch state when the call was made
    cfg_result      \* how the last setConfig call ended

scaleVars == <<sc_refUnit, sc_offset, sc_last, sc_prevZeroX>>
chipVars == <<chipReady, chipSeq, chipDead>>
hxVars == <<hx_watchState, hx_pinWatchLock, hx_readyLock, hx_lastVal, hx_wpc,
            hx_fpc, hx_len, hx_arr, hx_signal, hx_result, hx_destroyed>>

wxVars == <<now, wx_watchState, wx_pinWatchLock, wx_valuesLock, wx_values,
            wx_prio, wx_wpc, wx_v, wx_whenExceeded, wx_gpioOps, wx_fpc,
            wx_call, wx_samples, wx_endTime, wx_vals, wx_result, wx_destroyed>>

commVars == <<cm_commLock, cm_clock, cm_bitFormat, cm_byteFormat, cm_chipOff,
              cm_chipReady, cm_chipEdge, cm_chipWord, cm_pc, cm_n, cm_raw,
              cm_bit, cm_frame>>

cfgVars == <<hx_channel, hx_gain, hx_rate, cfg_pc, cfg_c, cfg_g, cfg_backup,
             cfg_pre, cfg_result>>

VARIABLES
    \* ---- a ValueStack on its own ----
    vs_container,   \* ValueStack::_container, front first
    vs_maxSize,     \* ValueStack::_maxSize
    vs_maxAge,      \* ValueStack::_maxAge, in clock ticks
    vs_now,         \* steady_clock::now(), in clock ticks
    vs_last         \* the last operation on the stack and what it returned

vsVars == <<vs_container, vs_maxSize, vs_maxAge, vs_now, vs_last>>

VARIABLES
    \* ---- a Value and the bytes of one conversion ----
    vl_v,           \* Value::_v: any 32-bit integer
    vl_bytes,       \* the three bytes _readRawBytes hands to _readInt
    vl_last         \* the last function applied and what it returned

vlVars == <<vl_v, vl_bytes, vl_last>>

VARIABLES
    \* ---- the median of a list of readings ----
    md_vals,        \* the vector handed to Utility::median
    md_last         \* the last function applied and what it returned

mdVars == <<md_vals, md_last>>

VARIABLES
    \* ---- two Mass objects ----
    ms_a,           \* a Mass: _ug and _u
    ms_b,           \* another Mass
    ms_last         \* the last function applied and what it returned

msVars == <<ms_a, ms_b, ms_last>>

VARIABLES
    \* ---- a call of HX711::powerUp ----
    pu_pc,          \* position of the powerUp call: idle or in setConfig()
    pu_pre,         \* channel, gain and rate when the call was made
    pu_settle,      \* the settling sleep the call took
    pu_result       \* how the last powerUp call ended

puVars == <<pu_pc, pu_pre, pu_settle, pu_result>>

vars == <<scaleVars, chipVars, hxVars, wxVars, commVars, cfgVars, vsVars,
         vlVars,
         mdVars,
         msVars,
         puVars>>

-----------------------------------------------------------------------------
(* Bounds of the model *)

\* the longest vector of readings getValues hands to the scale
MaxSamples == 3

\* |offset| is kept within this limit (the code's offset is an int32)
OffsetLimit == 6

\* the number of conversions the chip makes ready in one behaviour
MaxReads == 3

\* the largest len a caller passes to HX711::getValues
MaxLen == 2

\* the clock stops at this tick
MaxTime == 3

\* the ValueStack's maxAge (1 s in the code), in ticks
MaxAgeTicks == 2

\* the maxWait the watcher gives _recoverHX711 (50 ms in the code), in ticks
RecoverTicks == 1

\* the longest timeout a caller passes to getValues(timeout), in ticks
MaxTimeout == 1

\* the largest sample count a caller passes to getValues(samples)
MaxCount == 2
\* largest maxSize and maxAge a ValueStack is constructed with, and how far
\* its clock runs
MaxStackSize == 2
MaxStackAge == 1
MaxStackTime == 3
\* how far around the ends of the 24-bit range the Value arguments go
ValueSpan == 1
\* longest list of readings a median is taken of
MaxMedianLen == 4
\* largest whole number of micrograms a Mass of the model holds, 1000 apart
MaxAmount == 1

-----------------------------------------------------------------------------
(* Small pure helpers *)

Abs(x) == IF x < 0 THEN -x ELSE x

RECURSIVE SumSeq(_)
SumSeq(s) == IF s = <<>> THEN 0 ELSE Head(s) + SumSeq(Tail(s))

\* the sequence s with the element at index i removed
RemoveAt(s, i) == [j \in 1..(Len(s) - 1) |-> IF j < i THEN s[j] ELSE s[j + 1]]

\* index of a least element of a non-empty sequence
MinIndex(s) == CHOOSE i \in 1..Len(s) : \A j \in 1..Len(s) : s[i] <= s[j]

\* ascending order of s: what std::nth_element leaves at each position k
RECURSIVE Ascending(_)
Ascending(s) ==
    IF s = <<>> THEN <<>>
    ELSE LET i == MinIndex(s) IN <<s[i]>> \o Ascending(RemoveAt(s, i))

\* all sequences over S of length lo..hi
SeqsOf(S, lo, hi) == UNION {[1..n -> S] : n \in lo..hi}

\* A double is kept as an exact fraction <<numerator, denominator>>.
IsZeroFrac(q) == q[2] # 0 /\ q[1] = 0

\* std::round: nearest integer, halfway cases away from zero
Round(q) ==
    LET n == IF q[2] < 0 THEN -q[1] ELSE q[1]
        d == Abs(q[2])
    IN  IF n >= 0 THEN (2 * n + d) \div (2 * d)
        ELSE -((2 * (-n) + d) \div (2 * d))

-----------------------------------------------------------------------------
(* Scale engine: src/src/AbstractScale.cpp, src/include/Utility.h *)

\* raw readings the sensor input takes in the model
RawVals == {-2, 1, 4}

\* reference units and offsets a caller supplies
RefUnitArgs == {-2, 0, 1, 3}
OffsetArgs == {0, 2}

\* a constant input is kept as the set {X}; NoConst when there is none
NoConst == {}
NoFrac == <<0, 0>>

\* the middle of the list as it stands, no nth_element
medianUnordered(vals) ==
    LET n == Len(vals)
    IN  IF n = 1 THEN <<vals[1], 1>>
        ELSE IF n % 2 = 0
             THEN <<vals[n \div 2] + vals[n \div 2 + 1], 2>>
             ELSE <<vals[n \div 2 + 1], 1>>

\* Utility::median
median(vals) ==
    LET sorted == Ascending(vals)
        n == Len(vals)
    IN  IF n = 1 THEN <<vals[1], 1>>
        ELSE IF n % 2 = 0
             THEN <<sorted[n \div 2] + sorted[n \div 2 + 1], 2>>
             ELSE <<sorted[n \div 2 + 1], 1>>

\* Utility::average
average(vals) == <<SumSeq(vals), Len(vals)>>

\* AbstractScale::normalise: (v - _offset) / _refUnit
normalise(v, refUnit, offset) == <<v[1] - offset * v[2], v[2] * refUnit>>

\* Options: the sample-count and the duration constructors
OptionsSet ==
    [stratType : {"Samples"}, readType : {"Median", "Average"},
     samples : 0..MaxSamples]
    \cup
    [stratType : {"Time"}, readType : {"Median", "Average"}, samples : {0}]

\* What the virtual getValues can hand back to AbstractScale::read: for a
\* sample count exactly that many readings or a TimeoutException, for a
\* duration any number of readings, none included.
GetValuesOutcomes(o) ==
    IF o.stratType = "Samples"
    THEN {[err |-> "none", vals |-> v] :
              v \in SeqsOf(RawVals, o.samples, o.samples)}
         \cup {[err |-> "TimeoutException", vals |-> <<>>]}
    ELSE {[err |-> "none", vals |-> v] : v \in SeqsOf(RawVals, 0, MaxSamples)}

\* AbstractScale::read, given what getValues handed back
read(o, got, refUnit, offset) ==
    IF o.stratType = "Samples" /\ o.samples = 0
    THEN [err |-> "range_error", val |-> NoFrac]
    ELSE IF got.err # "none"
    THEN [err |-> got.err, val |-> NoFrac]
    ELSE IF got.vals = <<>>
    THEN [err |-> "runtime_error", val |-> NoFrac]
    ELSE [err |-> "none",
          val |-> normalise(
                    IF o.readType = "Median" THEN median(got.vals)
                    ELSE average(got.vals),
                    refUnit, offset)]

\* {X} when the input is constant at X, NoConst when it is not (or is empty)
ConstOf(vals) ==
    IF vals # <<>> /\ \A i \in 1..Len(vals) : vals[i] = vals[1]
    THEN {vals[1]} ELSE NoConst

ScaleRecord(op, err, val, x, preRef, preOff) ==
    [op |-> op, err |-> err, val |-> val, constX |-> x,
     preRef |-> preRef, preOff |-> preOff, arg |-> 0]

\* AbstractScale::AbstractScale: any reference unit and offset are stored
ScaleInit ==
    /\ sc_refUnit \in RefUnitArgs
    /\ sc_offset \in OffsetArgs
    /\ sc_last = ScaleRecord("none", "none", NoFrac, NoConst, sc_refUnit, sc_offset)
    /\ sc_prevZeroX = NoConst

\* a setter that stores its argument before it validates it
SetReferenceUnitStoreFirst(refUnit) ==
    /\ sc_refUnit' = refUnit
    /\ sc_last' = [ScaleRecord("setReferenceUnit",
                               IF refUnit = 0 THEN "invalid_argument"
                               ELSE "none",
                               NoFrac, NoConst, sc_refUnit, sc_offset)
                      EXCEPT !.arg = refUnit]
    /\ sc_prevZeroX' = NoConst
    /\ UNCHANGED sc_offset

\* AbstractScale::setReferenceUnit; the call's argument is kept in the record
SetReferenceUnit(refUnit) ==
    /\ IF refUnit = 0
       THEN /\ sc_last' = [ScaleRecord("setReferenceUnit", "invalid_argument",
                                       NoFrac, NoConst, sc_refUnit, sc_offset)
                              EXCEPT !.arg = refUnit]
            /\ UNCHANGED sc_refUnit
       ELSE /\ sc_refUnit' = refUnit
            /\ sc_last' = [ScaleRecord("setReferenceUnit", "none",
                                       NoFrac, NoConst, sc_refUnit, sc_offset)
                              EXCEPT !.arg = refUnit]
    /\ sc_prevZeroX' = NoConst
    /\ UNCHANGED sc_offset

\* AbstractScale::setOffset
SetOffset(offset) ==
    /\ sc_offset' = offset
    /\ sc_last' = ScaleRecord("setOffset", "none", NoFrac, NoConst,
                              sc_refUnit, sc_offset)
    /\ sc_prevZeroX' = NoConst
    /\ UNCHANGED sc_refUnit

\* a call of AbstractScale::read from outside
Read(o, got) ==
    LET r == read(o, got, sc_refUnit, sc_offset) IN
    /\ sc_last' = ScaleRecord("read", r.err, r.val, ConstOf(got.vals),
                              sc_refUnit, sc_offset)
    /\ sc_prevZeroX' =
           IF sc_last.op = "zero" /\ sc_last.err = "none"
           THEN sc_last.constX ELSE NoConst
    /\ UNCHANGED <<sc_refUnit, sc_offset>>

\* AbstractScale::zero: the reference unit is saved and set to 1, the offset
\* becomes the rounded reading, the reference unit is put back.  A read that
\* throws leaves the function at once.
Zero(o, got) ==
    LET backup == sc_refUnit
        r == read(o, got, 1, sc_offset)
    IN
    /\ IF r.err # "none"
       THEN /\ sc_refUnit' = 1
            /\ UNCHANGED sc_offset
            /\ sc_last' = ScaleRecord("zero", r.err, NoFrac, ConstOf(got.vals),
                                      sc_refUnit, sc_offset)
       ELSE /\ Abs(Round(r.val)) <= OffsetLimit
            /\ sc_offset' = Round(r.val)
            /\ IF backup = 0   \* setReferenceUnit(backup) throws, 1 stays
               THEN /\ sc_refUnit' = 1
                    /\ sc_last' = ScaleRecord("zero", "invalid_argument", NoFrac,
                                       ConstOf(got.vals), sc_refUnit, sc_offset)
               ELSE /\ sc_refUnit' = backup
                    /\ sc_last' = ScaleRecord("zero", "none", NoFrac,
                                       ConstOf(got.vals), sc_refUnit, sc_offset)
    /\ sc_prevZeroX' = NoConst

\* the scale engine while a specification does not use it
ScaleParked ==
    /\ sc_refUnit = 1
    /\ sc_offset = 0
    /\ sc_last = ScaleRecord("none", "none", NoFrac, NoConst, 1, 0)
    /\ sc_prevZeroX = NoConst

-----------------------------------------------------------------------------
(* The chip: DOUT goes low when a conversion is ready (datasheet pg. 4) *)

ChipInit ==
    /\ chipReady = FALSE
    /\ chipSeq = 0
    /\ chipDead = FALSE

\* a conversion period ends: DOUT goes low
ChipConvert ==
    /\ ~chipDead /\ ~chipReady /\ chipSeq < MaxReads
    /\ chipReady' = TRUE
    /\ chipSeq' = chipSeq + 1
    /\ UNCHANGED chipDead

\* from here on the chip never signals ready
ChipDies ==
    /\ ~chipDead /\ ~chipReady
    /\ chipDead' = TRUE
    /\ UNCHANGED <<chipReady, chipSeq>>

ChipNext == ChipConvert \/ ChipDies

-----------------------------------------------------------------------------
(* The watcher built into the driver: src/src/HX711.cpp *)

\* Value::Value(): std::numeric_limits<int32_t>::min()
Int32Min == -2147483647 - 1

\* Value::_MIN, Value::_MAX
ValueMin == -8388608
ValueMax == 8388607

\* a range test that leaves out the two ends
isValidExclusive(v) == v > ValueMin /\ v < ValueMax

\* Value::isValid
isValid(v) == v >= ValueMin /\ v <= ValueMax

NoOwner == "none"

\* HX711::HX711 followed by begin(): the watcher thread is running
HXInit ==
    /\ hx_watchState = "PAUSE"
    /\ hx_pinWatchLock = NoOwner
    /\ hx_readyLock = NoOwner
    /\ hx_lastVal = Int32Min
    /\ hx_wpc = "top"
    /\ hx_fpc = "idle"
    /\ hx_len = 0
    /\ hx_arr = <<>>
    /\ hx_signal = "none"
    /\ hx_result = "none"
    /\ hx_destroyed = FALSE

\* the built-in watcher while a specification does not use it
HXParked == HXInit

\* a store of the state that does not take the state lock
hx_changeWatchStateUnlocked(state) ==
    /\ hx_watchState' = state
    /\ UNCHANGED hx_pinWatchLock

\* HX711::_changeWatchState: lock_guard on _pinWatchLock around the store
hx_changeWatchState(state) ==
    /\ hx_pinWatchLock = NoOwner
    /\ hx_watchState' = state
    /\ UNCHANGED hx_pinWatchLock

\* PinWatchState / WatchState as the loops tell them apart
WatchStates == {"NORMAL", "PAUSE", "END"}

\* what the detached thread reads from self->_watchState: the member while
\* the object lives; once the destructor has run the object's storage is
\* released and the read is of a dangling object, with any outcome
hx_seenWatchState == IF hx_destroyed THEN WatchStates ELSE {hx_watchState}

\* ---- HX711::_watchPin, the thread loop ----

\* for(;;) { stateLock.lock();
HXW_LockState ==
    /\ hx_wpc = "top"
    /\ hx_pinWatchLock = NoOwner
    /\ hx_pinWatchLock' = "watcher"
    /\ hx_wpc' = "check"
    /\ UNCHANGED <<chipVars, hx_watchState, hx_readyLock, hx_lastVal, hx_fpc,
                   hx_len, hx_arr, hx_signal, hx_result, hx_destroyed>>

\* if(_watchState == END) break;
HXW_End ==
    /\ hx_wpc = "check"
    /\ "END" \in hx_seenWatchState
    /\ hx_wpc' = "exit"
    /\ UNCHANGED <<chipVars, hx_watchState, hx_pinWatchLock, hx_readyLock,
                   hx_lastVal, hx_fpc, hx_len, hx_arr, hx_signal, hx_result,
                   hx_destroyed>>

\* if(_watchState == PAUSE) { stateLock.unlock(); ... sleep; continue; }
HXW_Pause ==
    /\ hx_wpc = "check"
    /\ "PAUSE" \in hx_seenWatchState
    /\ hx_pinWatchLock' = NoOwner
    /\ hx_wpc' = "pauseSleep"
    /\ UNCHANGED <<chipVars, hx_watchState, hx_readyLock, hx_lastVal, hx_fpc,
                   hx_len, hx_arr, hx_signal, hx_result, hx_destroyed>>

\* normal state: if(!dataReadyLock.owns_lock()) dataReadyLock.lock();
HXW_Normal ==
    /\ hx_wpc = "check"
    /\ "NORMAL" \in hx_seenWatchState
    /\ hx_wpc' = IF hx_readyLock = "watcher" THEN "isReady" ELSE "lockReady"
    /\ UNCHANGED <<chipVars, hx_watchState, hx_pinWatchLock, hx_readyLock,
                   hx_lastVal, hx_fpc, hx_len, hx_arr, hx_signal, hx_result,
                   hx_destroyed>>

HXW_LockReady ==
    /\ hx_wpc = "lockReady"
    /\ hx_readyLock = NoOwner
    /\ hx_readyLock' = "watcher"
    /\ hx_wpc' = "isReady"
    /\ UNCHANGED <<chipVars, hx_watchState, hx_pinWatchLock, hx_lastVal,
                   hx_fpc, hx_len, hx_arr, hx_signal, hx_result, hx_destroyed>>

\* a readiness check that goes to sleep with the state lock still held
HXW_IsReadyKeepLock ==
    /\ hx_wpc = "isReady"
    /\ hx_wpc' = IF chipReady THEN "readInt" ELSE "notReadySleep"
    /\ UNCHANGED <<chipVars, hx_watchState, hx_pinWatchLock, hx_readyLock,
                   hx_lastVal, hx_fpc, hx_len, hx_arr, hx_signal, hx_result,
                   hx_destroyed>>

\* if(!_isReady()) { stateLock.unlock(); sleep; continue; }
\* the data-ready lock stays locked
HXW_IsReady ==
    /\ hx_wpc = "isReady"
    /\ IF chipReady
       THEN /\ hx_wpc' = "readInt"
            /\ UNCHANGED hx_pinWatchLock
       ELSE /\ hx_wpc' = "notReadySleep"
            /\ hx_pinWatchLock' = NoOwner
    /\ UNCHANGED <<chipVars, hx_watchState, hx_readyLock, hx_lastVal, hx_fpc,
                   hx_len, hx_arr, hx_signal, hx_result, hx_destroyed>>

\* v = _readInt(); a decoded value is always valid; _lastVal = v;
\* _dataReady.notify_all(); dataReadyLock.unlock();
HXW_ReadInt ==
    /\ hx_wpc = "readInt"
    /\ chipReady' = FALSE
    /\ hx_lastVal' = chipSeq
    /\ hx_signal' = IF hx_fpc = "waiting" /\ hx_signal = "none"
                    THEN "notified" ELSE hx_signal
    /\ hx_readyLock' = NoOwner
    /\ hx_wpc' = "unlockState"
    /\ UNCHANGED <<chipSeq, chipDead, hx_watchState, hx_pinWatchLock, hx_fpc,
                   hx_len, hx_arr, hx_result, hx_destroyed>>

\* stateLock.unlock(); _sleepns(_pollSleep);
HXW_UnlockState ==
    /\ hx_wpc = "unlockState"
    /\ hx_pinWatchLock' = NoOwner
    /\ hx_wpc' = "pollSleep"
    /\ UNCHANGED <<chipVars, hx_watchState, hx_readyLock, hx_lastVal, hx_fpc,
                   hx_len, hx_arr, hx_signal, hx_result, hx_destroyed>>

\* a sleep ends; next iteration
HXW_Wake ==
    /\ hx_wpc \in {"pauseSleep", "notReadySleep", "pollSleep"}
    /\ hx_wpc' = "top"
    /\ UNCHANGED <<chipVars, hx_watchState, hx_pinWatchLock, hx_readyLock,
                   hx_lastVal, hx_fpc, hx_len, hx_arr, hx_signal, hx_result,
                   hx_destroyed>>

\* pthread_exit: the stack is unwound, the unique_locks release what they own
HXW_Exit ==
    /\ hx_wpc = "exit"
    /\ hx_wpc' = "ended"
    /\ hx_pinWatchLock' = NoOwner
    /\ hx_readyLock' = IF hx_readyLock = "watcher" THEN NoOwner ELSE hx_readyLock
    /\ UNCHANGED <<chipVars, hx_watchState, hx_lastVal, hx_fpc, hx_len,
                   hx_arr, hx_signal, hx_result, hx_destroyed>>

HXWatcherNext ==
    \/ HXW_LockState
    \/ HXW_End
    \/ HXW_Pause
    \/ HXW_Normal
    \/ HXW_LockReady
    \/ HXW_IsReady
    \/ HXW_ReadInt
    \/ HXW_UnlockState
    \/ HXW_Wake
    \/ HXW_Exit

\* ---- HX711::getValues(arr, len, maxWait), the foreground caller ----

HXF_Call(len) ==
    /\ hx_fpc = "idle"
    /\ ~hx_destroyed
    /\ hx_len' = len
    /\ hx_arr' = <<>>
    /\ hx_result' = "none"
    /\ hx_fpc' = "setNormal"
    /\ UNCHANGED <<chipVars, hx_watchState, hx_pinWatchLock, hx_readyLock,
                   hx_lastVal, hx_wpc, hx_signal, hx_destroyed>>

\* _changeWatchState(NORMAL);
HXF_SetNormal ==
    /\ hx_fpc = "setNormal"
    /\ hx_changeWatchState("NORMAL")
    /\ hx_fpc' = "loop"
    /\ UNCHANGED <<chipVars, hx_readyLock, hx_lastVal, hx_wpc, hx_len, hx_arr,
                   hx_signal, hx_result, hx_destroyed>>

\* for(i = 0; i < len; ++i) { ... } _changeWatchState(PAUSE)
HXF_Loop ==
    /\ hx_fpc = "loop"
    /\ hx_fpc' = IF Len(hx_arr) < hx_len THEN "lock" ELSE "setPause"
    /\ UNCHANGED <<chipVars, hx_watchState, hx_pinWatchLock, hx_readyLock,
                   hx_lastVal, hx_wpc, hx_len, hx_arr, hx_signal, hx_result,
                   hx_destroyed>>

\* ready.lock();
HXF_Lock ==
    /\ hx_fpc = "lock"
    /\ hx_readyLock = NoOwner
    /\ hx_readyLock' = "fg"
    /\ hx_fpc' = "wait"
    /\ UNCHANGED <<chipVars, hx_watchState, hx_pinWatchLock, hx_lastVal,
                   hx_wpc, hx_len, hx_arr, hx_signal, hx_result, hx_destroyed>>

\* _dataReady.wait_for(ready, maxWait): the lock is released, the wait begins
HXF_Wait ==
    /\ hx_fpc = "wait"
    /\ hx_readyLock' = NoOwner
    /\ hx_signal' = "none"
    /\ hx_fpc' = "waiting"
    /\ UNCHANGED <<chipVars, hx_watchState, hx_pinWatchLock, hx_lastVal,
                   hx_wpc, hx_len, hx_arr, hx_result, hx_destroyed>>

\* maxWait elapses with no notification
HXF_WaitTimesOut ==
    /\ hx_fpc = "waiting"
    /\ hx_signal = "none"
    /\ hx_signal' = "timeout"
    /\ UNCHANGED <<chipVars, hx_watchState, hx_pinWatchLock, hx_readyLock,
                   hx_lastVal, hx_wpc, hx_fpc, hx_len, hx_arr, hx_result,
                   hx_destroyed>>

\* wait_for has no predicate: the condition variable may unblock the
\* waiter with no notification and before maxWait, and wait_for then
\* returns cv_status::no_timeout
HXF_WaitSpurious ==
    /\ hx_fpc = "waiting"
    /\ hx_signal = "none"
    /\ hx_signal' = "spurious"
    /\ UNCHANGED <<chipVars, hx_watchState, hx_pinWatchLock, hx_readyLock,
                   hx_lastVal, hx_wpc, hx_fpc, hx_len, hx_arr, hx_result,
                   hx_destroyed>>

\* a return from wait_for after which ready.unlock() is left out
HXF_WaitReturnsKeepLock ==
    /\ hx_fpc = "waiting"
    /\ hx_signal # "none"
    /\ hx_readyLock = NoOwner
    /\ IF hx_signal = "timeout"
       THEN /\ hx_fpc' = "idle"
            /\ hx_result' = "TimeoutException"
            /\ UNCHANGED <<hx_arr, hx_readyLock>>
       ELSE /\ hx_fpc' = "loop"
            /\ hx_arr' = Append(hx_arr, hx_lastVal)
            /\ hx_readyLock' = "fg"
            /\ UNCHANGED hx_result
    /\ hx_signal' = "none"
    /\ UNCHANGED <<chipVars, hx_watchState, hx_pinWatchLock, hx_lastVal,
                   hx_wpc, hx_len, hx_destroyed>>

\* wait_for returns once it owns the lock again: on timeout the
\* TimeoutException leaves getValues (the unique_lock unlocks), otherwise
\* arr[i] = _lastVal; ready.unlock();
HXF_WaitReturns ==
    /\ hx_fpc = "waiting"
    /\ hx_signal # "none"
    /\ hx_readyLock = NoOwner
    /\ IF hx_signal = "timeout"
       THEN /\ hx_fpc' = "idle"
            /\ hx_result' = "TimeoutException"
            /\ UNCHANGED hx_arr
       ELSE /\ hx_fpc' = "loop"
            /\ hx_arr' = Append(hx_arr, hx_lastVal)
            /\ UNCHANGED hx_result
    /\ hx_signal' = "none"
    /\ UNCHANGED <<chipVars, hx_watchState, hx_pinWatchLock, hx_readyLock,
                   hx_lastVal, hx_wpc, hx_len, hx_destroyed>>

\* _changeWatchState(PAUSE); and the call returns
HXF_SetPause ==
    /\ hx_fpc = "setPause"
    /\ hx_changeWatchState("PAUSE")
    /\ hx_fpc' = "idle"
    /\ hx_result' = "returned"
    /\ UNCHANGED <<chipVars, hx_readyLock, hx_lastVal, hx_wpc, hx_len, hx_arr,
                   hx_signal, hx_destroyed>>

\* a stop that sets END and leaves the object in use
HXF_StopOnly ==
    /\ hx_fpc = "idle"
    /\ ~hx_destroyed
    /\ hx_changeWatchState("END")
    /\ hx_result' = "none"
    /\ UNCHANGED <<chipVars, hx_readyLock, hx_lastVal, hx_wpc, hx_fpc, hx_len,
                   hx_arr, hx_signal, hx_destroyed>>

\* HX711::~HX711: _changeWatchState(END), the pins are freed, the handle
\* closed; the detached thread is not joined
HXF_Destroy ==
    /\ hx_fpc = "idle"
    /\ ~hx_destroyed
    /\ hx_changeWatchState("END")
    /\ hx_destroyed' = TRUE
    /\ hx_result' = "none"
    /\ UNCHANGED <<chipVars, hx_readyLock, hx_lastVal, hx_wpc, hx_fpc, hx_len,
                   hx_arr, hx_signal>>

\* the steps of a call that is under way
HXCallNext ==
    \/ HXF_SetNormal
    \/ HXF_Loop
    \/ HXF_Lock
    \/ HXF_Wait
    \/ HXF_WaitTimesOut
    \/ HXF_WaitReturns
    \/ HXF_SetPause

-----------------------------------------------------------------------------
(* HX711::setConfig: src/src/HX711.cpp *)

Channels == {"A", "B"}
Gains == {"GAIN_128", "GAIN_32", "GAIN_64"}
Rates == {"HZ_10", "HZ_80", "OTHER"}

\* the combinations setConfig refuses
InvalidPair(c, g) ==
    \/ (c = "A" /\ g = "GAIN_32")
    \/ (c = "B" /\ g # "GAIN_32")

NoPair == <<"none", "none">>

\* HX711::HX711: rate HZ_10, channel A, gain 128; no setConfig call yet
CfgInit ==
    /\ hx_channel = "A"
    /\ hx_gain = "GAIN_128"
    /\ hx_rate = "HZ_10"
    /\ cfg_pc = "idle"
    /\ cfg_c = "A"
    /\ cfg_g = "GAIN_128"
    /\ cfg_backup = NoPair
    /\ cfg_pre = [channel |-> "A", gain |-> "GAIN_128", state |-> "PAUSE"]
    /\ cfg_result = "none"

\* the configuration while a specification does not use it
CfgParked == CfgInit

\* a setConfig that stages channel and gain before it validates them
CFG_CallStageFirst(c, g, r) ==
    /\ hx_fpc = "idle" /\ cfg_pc = "idle" /\ ~hx_destroyed
    /\ hx_rate' = r
    /\ cfg_c' = c
    /\ cfg_g' = g
    /\ cfg_pre' = [channel |-> hx_channel, gain |-> hx_gain,
                   state |-> hx_watchState]
    /\ cfg_backup' = <<hx_channel, hx_gain>>
    /\ hx_channel' = c
    /\ hx_gain' = g
    /\ IF InvalidPair(c, g)
       THEN /\ cfg_result' = "invalid_argument"
            /\ UNCHANGED <<cfg_pc, hxVars>>
       ELSE /\ cfg_result' = "none"
            /\ cfg_pc' = "getValue"
            /\ HXF_Call(1)
    /\ UNCHANGED chipVars

\* setConfig(c, g, r) up to the call of getValue(): _rate = r; the two
\* checks throw invalid_argument; otherwise the backups are taken, channel
\* and gain are staged, and getValue() = getValues(&v, 1) is entered
CFG_Call(c, g, r) ==
    /\ hx_fpc = "idle" /\ cfg_pc = "idle" /\ ~hx_destroyed
    /\ hx_rate' = r
    /\ cfg_c' = c
    /\ cfg_g' = g
    /\ cfg_pre' = [channel |-> hx_channel, gain |-> hx_gain,
                   state |-> hx_watchState]
    /\ IF InvalidPair(c, g)
       THEN /\ cfg_result' = "invalid_argument"
            /\ UNCHANGED <<hx_channel, hx_gain, cfg_backup, cfg_pc, hxVars>>
       ELSE /\ cfg_backup' = <<hx_channel, hx_gain>>
            /\ hx_channel' = c
            /\ hx_gain' = g
            /\ cfg_result' = "none"
            /\ cfg_pc' = "getValue"
            /\ HXF_Call(1)
    /\ UNCHANGED chipVars

\* a setConfig whose handler re-throws without restoring
CFG_FinishNoRestore ==
    /\ cfg_pc = "getValue"
    /\ hx_fpc = "idle"
    /\ cfg_result' = hx_result
    /\ cfg_pc' = "idle"
    /\ UNCHANGED <<hx_channel, hx_gain, hx_rate, cfg_c, cfg_g, cfg_backup,
                   cfg_pre, chipVars, hxVars>>

\* getValue() has returned or thrown: catch(TimeoutException) restores
\* channel and gain from the backups and re-throws
CFG_Finish ==
    /\ cfg_pc = "getValue"
    /\ hx_fpc = "idle"
    /\ IF hx_result = "TimeoutException"
       THEN /\ hx_channel' = cfg_backup[1]
            /\ hx_gain' = cfg_backup[2]
       ELSE UNCHANGED <<hx_channel, hx_gain>>
    /\ cfg_result' = hx_result
    /\ cfg_pc' = "idle"
    /\ UNCHANGED <<hx_rate, cfg_c, cfg_g, cfg_backup, cfg_pre, chipVars,
                   hxVars>>

\* another call of the driver begins: the record of the last setConfig goes
CFG_Forget ==
    /\ cfg_pc = "idle"
    /\ cfg_result' = "none"
    /\ UNCHANGED <<hx_channel, hx_gain, hx_rate, cfg_pc, cfg_c, cfg_g,
                   cfg_backup, cfg_pre>>

-----------------------------------------------------------------------------
(* HX711::powerUp: src/src/HX711.cpp *)

\* the settling sleep powerUp takes for a rate: 400 ms at HZ_10, 50 ms at
\* HZ_80, none for any other rate
SettleFor(rate) ==
    IF rate = "HZ_10" THEN "400ms"
    ELSE IF rate = "HZ_80" THEN "50ms"
    ELSE "0ms"

\* no powerUp call has been made
PowerInit ==
    /\ pu_pc = "idle"
    /\ pu_pre = [channel |-> "A", gain |-> "GAIN_128", rate |-> "HZ_10"]
    /\ pu_settle = "none"
    /\ pu_result = "none"

\* the powerUp call while a specification does not use it
PowerParked == PowerInit

\* powerUp() up to the settling sleep or the call of setConfig: the clock
\* pin, which is low unless powerDown() raised it, is written low under
\* _commLock; with a gain of 128 the settling sleep for _rate follows and
\* the call returns; with any other gain setConfig(_channel, _gain) is
\* entered, its third argument being the declaration's default, HZ_10
PU_Call ==
    /\ hx_fpc = "idle" /\ cfg_pc = "idle" /\ pu_pc = "idle" /\ ~hx_destroyed
    /\ pu_pre' = [channel |-> hx_channel, gain |-> hx_gain, rate |-> hx_rate]
    /\ IF hx_gain # "GAIN_128"
       THEN /\ CFG_Call(hx_channel, hx_gain, "HZ_10")
            /\ pu_pc' = "setConfig"
            /\ pu_settle' = "none"
            /\ pu_result' = "none"
       ELSE /\ pu_settle' = SettleFor(hx_rate)
            /\ pu_result' = "returned"
            /\ UNCHANGED <<pu_pc, cfgVars, hxVars, chipVars>>

\* setConfig has returned or thrown inside powerUp(): an exception leaves
\* powerUp() at once; otherwise the settling sleep for _rate follows
PU_Return ==
    /\ pu_pc = "setConfig" /\ cfg_pc = "idle"
    /\ pu_pc' = "idle"
    /\ IF cfg_result = "returned"
       THEN /\ pu_settle' = SettleFor(hx_rate)
            /\ pu_result' = "returned"
       ELSE /\ pu_settle' = "none"
            /\ pu_result' = cfg_result
    /\ UNCHANGED <<pu_pre, cfgVars, hxVars, chipVars>>

\* another call of the driver begins: the record of the last powerUp goes
PU_Forget ==
    /\ pu_pc = "idle"
    /\ pu_pre' = [channel |-> "A", gain |-> "GAIN_128", rate |-> "HZ_10"]
    /\ pu_settle' = "none"
    /\ pu_result' = "none"
    /\ UNCHANGED pu_pc

-----------------------------------------------------------------------------
(* ValueStack: src/src/ValueStack.cpp *)

\* ValueStack::_DEFAULT_MAX_SIZE
DefaultMaxSize == 80

\* std::list::pop_back
PopBack(c) == SubSeq(c, 1, Len(c) - 1)

\* ValueStack::_update: pop_back while over maxSize, then
\* remove_if((e.when + _maxAge) > now)
VS_update(c, maxSize, maxAge, t) ==
    LET trimmed == IF Len(c) > maxSize THEN SubSeq(c, 1, maxSize) ELSE c
    IN  SelectSeq(trimmed, LAMBDA e : ~((e.when + maxAge) > t))

\* ValueStack::full
VS_full(c, maxSize) == Len(c) >= maxSize

\* a push that inserts without making room
VS_pushNoEvict(c, val, maxSize, maxAge, t) ==
    <<[val |-> val, when |-> t]>> \o VS_update(c, maxSize, maxAge, t)

\* ValueStack::push: _update(); if(full()) pop_back(); push_front(e)
VS_push(c, val, maxSize, maxAge, t) ==
    LET updated == VS_update(c, maxSize, maxAge, t)
        room == IF VS_full(updated, maxSize) THEN PopBack(updated) ELSE updated
    IN  <<[val |-> val, when |-> t]>> \o room

\* ValueStack::pop: the front entry's value; pop_front()
VS_popValue(c) == Head(c).val
VS_popRest(c) == Tail(c)

\* ValueStack::empty
VS_empty(c) == c = <<>>

\* ValueStack::size
VS_size(c) == Len(c)

\* values pushed by the stack's user
StackVals == {7, 9}

StackRecord(op, arg, preLen, ret) ==
    [op |-> op, arg |-> arg, preLen |-> preLen, ret |-> ret]

\* ValueStack::ValueStack(maxSize, maxAge): an empty container
VSInit ==
    /\ vs_container = <<>>
    /\ vs_maxSize \in 1..MaxStackSize
    /\ vs_maxAge \in 0..MaxStackAge
    /\ vs_now = 0
    /\ vs_last = StackRecord("none", 0, 0, 0)

\* the stack while a specification does not use it
VSParked ==
    /\ vs_container = <<>>
    /\ vs_maxSize = 1
    /\ vs_maxAge = 0
    /\ vs_now = 0
    /\ vs_last = StackRecord("none", 0, 0, 0)

\* push(val)
VSPush(val) ==
    /\ vs_container' = VS_push(vs_container, val, vs_maxSize, vs_maxAge, vs_now)
    /\ vs_last' = StackRecord("push", val, Len(vs_container), 0)
    /\ UNCHANGED <<vs_maxSize, vs_maxAge, vs_now>>

\* pop() on a stack that is not empty
VSPop ==
    /\ ~VS_empty(vs_container)
    /\ vs_container' = VS_popRest(vs_container)
    /\ vs_last' = StackRecord("pop", 0, Len(vs_container),
                              VS_popValue(vs_container))
    /\ UNCHANGED <<vs_maxSize, vs_maxAge, vs_now>>

\* size()
VSSize ==
    /\ vs_last' = StackRecord("size", 0, Len(vs_container),
                              VS_size(vs_container))
    /\ UNCHANGED <<vs_container, vs_maxSize, vs_maxAge, vs_now>>

\* clear()
VSClear ==
    /\ vs_container' = <<>>
    /\ vs_last' = StackRecord("clear", 0, Len(vs_container), 0)
    /\ UNCHANGED <<vs_maxSize, vs_maxAge, vs_now>>

\* the steady clock advances between two operations
VSTick ==
    /\ vs_now < MaxStackTime
    /\ vs_now' = vs_now + 1
    /\ vs_last' = StackRecord("none", 0, 0, 0)
    /\ UNCHANGED <<vs_container, vs_maxSize, vs_maxAge>>

-----------------------------------------------------------------------------
(* The separate Watcher: src/src/Watcher.cpp *)

\* Utility::readGpio, as HX711::isReady calls it: the level is read, or the
\* read fails and a GpioException is thrown
IsReadyOutcomes == {"level", "GpioException"}

\* HX711::readValue, as Watcher::_watchPin handles it: a value, an
\* IntegrityException or a GpioException
ReadValueOutcomes == {"value", "IntegrityException", "GpioException"}

Flip(b) == 1 - b

\* Watcher::Watcher followed by begin(): the watcher thread is running;
\* the AdvancedHX711 constructor has returned
WXInit ==
    /\ now = 0
    /\ wx_watchState = "PAUSE"
    /\ wx_pinWatchLock = NoOwner
    /\ wx_valuesLock = NoOwner
    /\ wx_values = <<>>
    /\ wx_prio = "unset"
    /\ wx_wpc = "switch"
    /\ wx_v = Int32Min
    /\ wx_whenExceeded = 0
    /\ wx_gpioOps = 0
    /\ wx_fpc = "idle"
    /\ wx_call = "none"
    /\ wx_samples = 0
    /\ wx_endTime = 0
    /\ wx_vals = <<>>
    /\ wx_result = "none"
    /\ wx_destroyed = FALSE

\* the separate Watcher while a specification does not use it
WXParked == WXInit

\* an exception has left the thread function: std::terminate ends the process
Aborted == wx_wpc = "terminated"

\* a store of the state that leaves the thread priority alone
wx_changeWatchStateNoPriority(state) ==
    /\ wx_pinWatchLock = NoOwner
    /\ wx_watchState' = state
    /\ UNCHANGED <<wx_pinWatchLock, wx_prio>>

\* Watcher::_changeWatchState: lock_guard on _pinWatchLock; on a change to
\* NORMAL or PAUSE the thread priority is set to max or min; the store
wx_changeWatchState(state) ==
    /\ wx_pinWatchLock = NoOwner
    /\ wx_prio' = IF state # wx_watchState /\ state \in {"NORMAL", "PAUSE"}
                  THEN (IF state = "NORMAL" THEN "max" ELSE "min")
                  ELSE wx_prio
    /\ wx_watchState' = state
    /\ UNCHANGED wx_pinWatchLock

\* ---- Watcher::_watchPin, the thread loop ----

\* self->_watchState as the thread reads it; after delete _wx the Watcher
\* is a dangling object
wx_seenWatchState == IF wx_destroyed THEN WatchStates ELSE {wx_watchState}

\* switch(self->_watchState): read without the state lock
WXW_Switch ==
    /\ wx_wpc = "switch"
    /\ \E seen \in wx_seenWatchState :
           wx_wpc' = CASE seen = "NORMAL" -> "lockState"
                       [] seen = "PAUSE" -> "pauseSleep"
                       [] OTHER -> "ended"
    /\ UNCHANGED <<chipVars, now, wx_watchState, wx_pinWatchLock,
                   wx_valuesLock, wx_values, wx_prio, wx_v, wx_whenExceeded,
                   wx_gpioOps, wx_fpc, wx_call, wx_samples, wx_endTime,
                   wx_vals, wx_result, wx_destroyed>>

\* case NORMAL: stateLock.lock();
WXW_LockState ==
    /\ wx_wpc = "lockState"
    /\ wx_pinWatchLock = NoOwner
    /\ wx_pinWatchLock' = "watcher"
    /\ wx_wpc' = "isReady"
    /\ UNCHANGED <<chipVars, now, wx_watchState, wx_valuesLock, wx_values,
                   wx_prio, wx_v, wx_whenExceeded, wx_gpioOps, wx_fpc,
                   wx_call, wx_samples, wx_endTime, wx_vals, wx_result,
                   wx_destroyed>>

\* if(!_hx->isReady()) { stateLock.unlock(); yield; delay; continue; }
\* the call is outside every try block
WXW_IsReady(outcome) ==
    /\ wx_wpc = "isReady"
    /\ wx_gpioOps' = Flip(wx_gpioOps)
    /\ IF outcome = "GpioException"
       THEN /\ wx_wpc' = "terminated"
            /\ UNCHANGED wx_pinWatchLock
       ELSE IF chipReady
       THEN /\ wx_wpc' = "readValue"
            /\ UNCHANGED wx_pinWatchLock
       ELSE /\ wx_wpc' = "notReadyDelay"
            /\ wx_pinWatchLock' = NoOwner
    /\ UNCHANGED <<chipVars, now, wx_watchState, wx_valuesLock, wx_values,
                   wx_prio, wx_v, wx_whenExceeded, wx_fpc, wx_call,
                   wx_samples, wx_endTime, wx_vals, wx_result, wx_destroyed>>

\* try { v = _hx->readValue(); }
\* catch(IntegrityException) { _recoverHX711(50ms); stateLock.unlock(); continue; }
\* catch(GpioException) { stateLock.unlock(); continue; }
WXW_ReadValue(outcome) ==
    /\ wx_wpc = "readValue"
    /\ wx_gpioOps' = Flip(wx_gpioOps)
    /\ CASE outcome = "value" ->
              /\ wx_v' = chipSeq
              /\ chipReady' = FALSE
              /\ wx_wpc' = "lockValues"
              /\ UNCHANGED <<wx_pinWatchLock, wx_whenExceeded>>
         [] outcome = "IntegrityException" ->
              /\ wx_whenExceeded' = now + RecoverTicks
              /\ chipReady' = FALSE
              /\ wx_wpc' = "recover"
              /\ UNCHANGED <<wx_pinWatchLock, wx_v>>
         [] outcome = "GpioException" ->
              /\ wx_pinWatchLock' = NoOwner
              /\ wx_wpc' = "switch"
              /\ UNCHANGED <<chipReady, wx_v, wx_whenExceeded>>
    /\ UNCHANGED <<chipSeq, chipDead, now, wx_watchState, wx_valuesLock,
                   wx_values, wx_prio, wx_fpc, wx_call, wx_samples,
                   wx_endTime, wx_vals, wx_result, wx_destroyed>>

\* a recovery loop that retries on every IntegrityException, whatever the time
WXW_RecoverNoDeadline(outcome) ==
    /\ wx_wpc = "recover"
    /\ wx_gpioOps' = Flip(wx_gpioOps)
    /\ CASE outcome = "value" ->
              /\ chipReady' = FALSE
              /\ wx_pinWatchLock' = NoOwner
              /\ wx_wpc' = "switch"
         [] outcome = "IntegrityException" ->
              /\ chipReady' = FALSE
              /\ UNCHANGED <<wx_pinWatchLock, wx_wpc>>
         [] outcome = "GpioException" ->
              /\ wx_wpc' = "terminated"
              /\ UNCHANGED <<chipReady, wx_pinWatchLock>>
    /\ UNCHANGED <<chipSeq, chipDead, now, wx_watchState, wx_valuesLock,
                   wx_values, wx_prio, wx_v, wx_whenExceeded, wx_fpc, wx_call,
                   wx_samples, wx_endTime, wx_vals, wx_result, wx_destroyed>>

\* Watcher::_recoverHX711, one turn of its loop: a read that succeeds
\* returns; an IntegrityException returns once maxWait is met and tries
\* again otherwise; nothing catches a GpioException.  On return the caller
\* does stateLock.unlock(); continue;
WXW_Recover(outcome) ==
    /\ wx_wpc = "recover"
    /\ wx_gpioOps' = Flip(wx_gpioOps)
    /\ CASE outcome = "value" ->
              /\ chipReady' = FALSE
              /\ wx_pinWatchLock' = NoOwner
              /\ wx_wpc' = "switch"
         [] outcome = "IntegrityException" ->
              /\ chipReady' = FALSE
              /\ IF now >= wx_whenExceeded
                 THEN /\ wx_pinWatchLock' = NoOwner
                      /\ wx_wpc' = "switch"
                 ELSE UNCHANGED <<wx_pinWatchLock, wx_wpc>>
         [] outcome = "GpioException" ->
              /\ wx_wpc' = "terminated"
              /\ UNCHANGED <<chipReady, wx_pinWatchLock>>
    /\ UNCHANGED <<chipSeq, chipDead, now, wx_watchState, wx_valuesLock,
                   wx_values, wx_prio, wx_v, wx_whenExceeded, wx_fpc, wx_call,
                   wx_samples, wx_endTime, wx_vals, wx_result, wx_destroyed>>

\* self->valuesLock.lock();
WXW_LockValues ==
    /\ wx_wpc = "lockValues"
    /\ wx_valuesLock = NoOwner
    /\ wx_valuesLock' = "watcher"
    /\ wx_wpc' = "push"
    /\ UNCHANGED <<chipVars, now, wx_watchState, wx_pinWatchLock, wx_values,
                   wx_prio, wx_v, wx_whenExceeded, wx_gpioOps, wx_fpc,
                   wx_call, wx_samples, wx_endTime, wx_vals, wx_result,
                   wx_destroyed>>

\* self->values.push(v); self->valuesLock.unlock();
WXW_Push ==
    /\ wx_wpc = "push"
    /\ wx_values' = VS_push(wx_values, wx_v, DefaultMaxSize, MaxAgeTicks, now)
    /\ wx_gpioOps' = Flip(wx_gpioOps)
    /\ wx_valuesLock' = NoOwner
    /\ wx_wpc' = "unlockState"
    /\ UNCHANGED <<chipVars, now, wx_watchState, wx_pinWatchLock, wx_prio,
                   wx_v, wx_whenExceeded, wx_fpc, wx_call, wx_samples,
                   wx_endTime, wx_vals, wx_result, wx_destroyed>>

\* stateLock.unlock(); Utility::sleep(_pollSleep); continue;
WXW_UnlockState ==
    /\ wx_wpc = "unlockState"
    /\ wx_pinWatchLock' = NoOwner
    /\ wx_wpc' = "pollSleep"
    /\ UNCHANGED <<chipVars, now, wx_watchState, wx_valuesLock, wx_values,
                   wx_prio, wx_v, wx_whenExceeded, wx_gpioOps, wx_fpc,
                   wx_call, wx_samples, wx_endTime, wx_vals, wx_result,
                   wx_destroyed>>

\* a sleep or delay ends; next iteration
WXW_Wake ==
    /\ wx_wpc \in {"pauseSleep", "notReadyDelay", "pollSleep"}
    /\ wx_wpc' = "switch"
    /\ UNCHANGED <<chipVars, now, wx_watchState, wx_pinWatchLock,
                   wx_valuesLock, wx_values, wx_prio, wx_v, wx_whenExceeded,
                   wx_gpioOps, wx_fpc, wx_call, wx_samples, wx_endTime,
                   wx_vals, wx_result, wx_destroyed>>

WXWatcherNext ==
    \/ WXW_Switch
    \/ WXW_LockState
    \/ \E outcome \in IsReadyOutcomes : WXW_IsReady(outcome)
    \/ \E outcome \in ReadValueOutcomes : WXW_ReadValue(outcome)
    \/ \E outcome \in ReadValueOutcomes : WXW_Recover(outcome)
    \/ WXW_LockValues
    \/ WXW_Push
    \/ WXW_UnlockState
    \/ WXW_Wake

-----------------------------------------------------------------------------
(* The consumer: src/src/AdvancedHX711.cpp *)

\* getValues(samples): if(samples == 0) throw std::range_error
WXF_CallSamples(samples) ==
    /\ wx_fpc = "idle"
    /\ ~wx_destroyed
    /\ wx_call' = "samples"
    /\ wx_samples' = samples
    /\ wx_vals' = <<>>
    /\ wx_endTime' = 0
    /\ IF samples = 0
       THEN /\ wx_result' = "range_error"
            /\ UNCHANGED wx_fpc
       ELSE /\ wx_result' = "none"
            /\ wx_fpc' = "clear"
    /\ UNCHANGED <<chipVars, now, wx_watchState, wx_pinWatchLock,
                   wx_valuesLock, wx_values, wx_prio, wx_wpc, wx_v,
                   wx_whenExceeded, wx_gpioOps, wx_destroyed>>

\* getValues(timeout) is entered; endTime is fixed after watch().  Calls are
\* made while their nominal deadline lies within the clock's horizon.
WXF_CallTimeout(timeout) ==
    /\ wx_fpc = "idle"
    /\ ~wx_destroyed
    /\ now + timeout <= MaxTime
    /\ wx_call' = "timeout"
    /\ wx_samples' = 0
    /\ wx_vals' = <<>>
    /\ wx_endTime' = timeout
    /\ wx_result' = "none"
    /\ wx_fpc' = "clear"
    /\ UNCHANGED <<chipVars, now, wx_watchState, wx_pinWatchLock,
                   wx_valuesLock, wx_values, wx_prio, wx_wpc, wx_v,
                   wx_whenExceeded, wx_gpioOps, wx_destroyed>>

\* this->_wx->values.clear(); no lock is taken
WXF_Clear ==
    /\ wx_fpc = "clear"
    /\ wx_values' = <<>>
    /\ wx_fpc' = "watch"
    /\ UNCHANGED <<chipVars, now, wx_watchState, wx_pinWatchLock,
                   wx_valuesLock, wx_prio, wx_wpc, wx_v, wx_whenExceeded,
                   wx_gpioOps, wx_call, wx_samples, wx_endTime, wx_vals,
                   wx_result, wx_destroyed>>

\* this->_wx->watch(); for a duration call endTime = now() + timeout
WXF_Watch ==
    /\ wx_fpc = "watch"
    /\ wx_changeWatchState("NORMAL")
    /\ IF wx_call = "samples"
       THEN /\ wx_fpc' = "fill"
            /\ UNCHANGED wx_endTime
       ELSE /\ wx_fpc' = "deadline"
            /\ wx_endTime' = now + wx_endTime
    /\ UNCHANGED <<chipVars, now, wx_valuesLock, wx_values, wx_wpc, wx_v,
                   wx_whenExceeded, wx_gpioOps, wx_call, wx_samples, wx_vals,
                   wx_result, wx_destroyed>>

\* getValues(samples): while(vals.size() < samples) { ... } pause
WXF_Fill ==
    /\ wx_fpc = "fill"
    /\ wx_fpc' = IF Len(wx_vals) < wx_samples THEN "poll" ELSE "pause"
    /\ UNCHANGED <<chipVars, now, wx_watchState, wx_pinWatchLock,
                   wx_valuesLock, wx_values, wx_prio, wx_wpc, wx_v,
                   wx_whenExceeded, wx_gpioOps, wx_call, wx_samples,
                   wx_endTime, wx_vals, wx_result, wx_destroyed>>

\* values.empty() called without valuesLock: what the container holds,
\* unless the watcher is inside push at that moment; the read then races
\* with the write and either answer can come back
wx_emptyUnlocked ==
    IF wx_wpc = "push" THEN {TRUE, FALSE} ELSE {VS_empty(wx_values)}

\* while(values.empty()) { yield; sleep(1ms); }  read without the lock
WXF_Poll ==
    /\ wx_fpc = "poll"
    /\ \E empty \in wx_emptyUnlocked :
           wx_fpc' = IF empty THEN "poll" ELSE "lockValues"
    /\ UNCHANGED <<chipVars, now, wx_watchState, wx_pinWatchLock,
                   wx_valuesLock, wx_values, wx_prio, wx_wpc, wx_v,
                   wx_whenExceeded, wx_gpioOps, wx_call, wx_samples,
                   wx_endTime, wx_vals, wx_result, wx_destroyed>>

\* getValues(timeout): if(now() >= endTime) pause and return;
\* if(!values.empty()) drain; else yield and sleep(1ms)
WXF_Deadline ==
    /\ wx_fpc = "deadline"
    /\ \E empty \in wx_emptyUnlocked :
           wx_fpc' = IF now >= wx_endTime THEN "pause"
                     ELSE IF ~empty THEN "lockValues"
                     ELSE "deadline"
    /\ UNCHANGED <<chipVars, now, wx_watchState, wx_pinWatchLock,
                   wx_valuesLock, wx_values, wx_prio, wx_wpc, wx_v,
                   wx_whenExceeded, wx_gpioOps, wx_call, wx_samples,
                   wx_endTime, wx_vals, wx_result, wx_destroyed>>

\* this->_wx->valuesLock.lock();
WXF_LockValues ==
    /\ wx_fpc = "lockValues"
    /\ wx_valuesLock = NoOwner
    /\ wx_valuesLock' = "fg"
    /\ wx_fpc' = "drain"
    /\ UNCHANGED <<chipVars, now, wx_watchState, wx_pinWatchLock, wx_values,
                   wx_prio, wx_wpc, wx_v, wx_whenExceeded, wx_gpioOps,
                   wx_call, wx_samples, wx_endTime, wx_vals, wx_result,
                   wx_destroyed>>

\* a drain loop that pops until the count is met and never asks empty();
\* a pop from an empty stack is shown as the default value
WXF_DrainNoEmptyCheck ==
    /\ wx_fpc = "drain"
    /\ IF wx_call = "samples" /\ Len(wx_vals) < wx_samples
       THEN /\ wx_vals' = Append(wx_vals, IF VS_empty(wx_values) THEN Int32Min
                                          ELSE VS_popValue(wx_values))
            /\ wx_values' = IF VS_empty(wx_values) THEN wx_values
                            ELSE VS_popRest(wx_values)
            /\ UNCHANGED <<wx_valuesLock, wx_fpc>>
       ELSE /\ wx_valuesLock' = NoOwner
            /\ wx_fpc' = IF wx_call = "samples" THEN "fill" ELSE "deadline"
            /\ UNCHANGED <<wx_vals, wx_values>>
    /\ UNCHANGED <<chipVars, now, wx_watchState, wx_pinWatchLock, wx_prio,
                   wx_wpc, wx_v, wx_whenExceeded, wx_gpioOps, wx_call,
                   wx_samples, wx_endTime, wx_result, wx_destroyed>>

\* while(!values.empty() [&& vals.size() < samples]) vals.push_back(values.pop());
\* valuesLock.unlock();
WXF_Drain ==
    /\ wx_fpc = "drain"
    /\ IF ~VS_empty(wx_values)
            /\ (wx_call = "samples" => Len(wx_vals) < wx_samples)
       THEN /\ wx_vals' = Append(wx_vals, VS_popValue(wx_values))
            /\ wx_values' = VS_popRest(wx_values)
            /\ UNCHANGED <<wx_valuesLock, wx_fpc>>
       ELSE /\ wx_valuesLock' = NoOwner
            /\ wx_fpc' = IF wx_call = "samples" THEN "fill" ELSE "deadline"
            /\ UNCHANGED <<wx_vals, wx_values>>
    /\ UNCHANGED <<chipVars, now, wx_watchState, wx_pinWatchLock, wx_prio,
                   wx_wpc, wx_v, wx_whenExceeded, wx_gpioOps, wx_call,
                   wx_samples, wx_endTime, wx_result, wx_destroyed>>

\* this->_wx->pause(); return vals;
WXF_Pause ==
    /\ wx_fpc = "pause"
    /\ wx_changeWatchState("PAUSE")
    /\ wx_fpc' = "idle"
    /\ wx_result' = "returned"
    /\ UNCHANGED <<chipVars, now, wx_valuesLock, wx_values, wx_wpc, wx_v,
                   wx_whenExceeded, wx_gpioOps, wx_call, wx_samples,
                   wx_endTime, wx_vals, wx_destroyed>>

\* AdvancedHX711::~AdvancedHX711: delete _wx, that is Watcher::~Watcher:
\* _changeWatchState(END); the detached thread is not joined; ~HX711 then
\* releases the driver
WXF_Destroy ==
    /\ wx_fpc = "idle"
    /\ ~wx_destroyed
    /\ wx_changeWatchState("END")
    /\ wx_destroyed' = TRUE
    /\ wx_call' = "none"
    /\ wx_result' = "none"
    /\ UNCHANGED <<chipVars, now, wx_valuesLock, wx_values, wx_wpc, wx_v,
                   wx_whenExceeded, wx_gpioOps, wx_fpc, wx_samples,
                   wx_endTime, wx_vals>>

\* Watcher::watch(), called on the Watcher itself
WX_Watch ==
    /\ wx_fpc = "idle"
    /\ ~wx_destroyed
    /\ wx_changeWatchState("NORMAL")
    /\ UNCHANGED <<chipVars, now, wx_valuesLock, wx_values, wx_wpc, wx_v,
                   wx_whenExceeded, wx_gpioOps, wx_fpc, wx_call, wx_samples,
                   wx_endTime, wx_vals, wx_result, wx_destroyed>>

\* Watcher::pause(), called on the Watcher itself
WX_Pause ==
    /\ wx_fpc = "idle"
    /\ ~wx_destroyed
    /\ wx_changeWatchState("PAUSE")
    /\ UNCHANGED <<chipVars, now, wx_valuesLock, wx_values, wx_wpc, wx_v,
                   wx_whenExceeded, wx_gpioOps, wx_fpc, wx_call, wx_samples,
                   wx_endTime, wx_vals, wx_result, wx_destroyed>>

\* the steps of a call that is under way
WXCallNext ==
    \/ WXF_Clear
    \/ WXF_Watch
    \/ WXF_Fill
    \/ WXF_Poll
    \/ WXF_Deadline
    \/ WXF_LockValues
    \/ WXF_Drain
    \/ WXF_Pause

\* a duration call is waiting for its deadline
DeadlinePending ==
    /\ wx_call = "timeout"
    /\ wx_fpc \in {"deadline", "lockValues", "drain"}
    /\ now < wx_endTime

\* the recovery loop is waiting for its maxWait
RecoveryPending == wx_wpc = "recover" /\ now < wx_whenExceeded

\* the clock advances; it stops at the horizon only when nobody is waiting
\* for a point in time
Tick ==
    /\ now < MaxTime \/ DeadlinePending \/ RecoveryPending
    /\ now' = now + 1
    /\ UNCHANGED <<chipVars, wx_watchState, wx_pinWatchLock, wx_valuesLock,
                   wx_values, wx_prio, wx_wpc, wx_v, wx_whenExceeded,
                   wx_gpioOps, wx_fpc, wx_call, wx_samples, wx_endTime,
                   wx_vals, wx_result, wx_destroyed>>

\* what a step of the Watcher or its consumer leaves alone
WXOthers == UNCHANGED <<scaleVars, hxVars, commVars, cfgVars,
    vsVars, vlVars, mdVars, msVars, puVars>>

\* nothing runs once the process has been aborted
NextWX ==
    \/ ~Aborted /\ WXW_Switch /\ WXOthers
    \/ ~Aborted /\ WXW_LockState /\ WXOthers
    \/ ~Aborted /\ (\E outcome \in IsReadyOutcomes : WXW_IsReady(outcome))
          /\ WXOthers
    \/ ~Aborted /\ (\E outcome \in ReadValueOutcomes : WXW_ReadValue(outcome))
          /\ WXOthers
    \/ ~Aborted /\ (\E outcome \in ReadValueOutcomes : WXW_Recover(outcome))
          /\ WXOthers
    \/ ~Aborted /\ WXW_LockValues /\ WXOthers
    \/ ~Aborted /\ WXW_Push /\ WXOthers
    \/ ~Aborted /\ WXW_UnlockState /\ WXOthers
    \/ ~Aborted /\ WXW_Wake /\ WXOthers
    \/ ~Aborted /\ (\E n \in 0..MaxCount : WXF_CallSamples(n)) /\ WXOthers
    \/ ~Aborted /\ (\E t \in 0..MaxTimeout : WXF_CallTimeout(t)) /\ WXOthers
    \/ ~Aborted /\ WXF_Clear /\ WXOthers
    \/ ~Aborted /\ WXF_Watch /\ WXOthers
    \/ ~Aborted /\ WXF_Fill /\ WXOthers
    \/ ~Aborted /\ WXF_Poll /\ WXOthers
    \/ ~Aborted /\ WXF_Deadline /\ WXOthers
    \/ ~Aborted /\ WXF_LockValues /\ WXOthers
    \/ ~Aborted /\ WXF_Drain /\ WXOthers
    \/ ~Aborted /\ WXF_Pause /\ WXOthers
    \/ ~Aborted /\ WXF_Destroy /\ WXOthers
    \/ ~Aborted /\ Tick /\ WXOthers
    \/ ~Aborted /\ ChipConvert /\ UNCHANGED wxVars /\ WXOthers
    \/ ~Aborted /\ ChipDies /\ UNCHANGED wxVars /\ WXOthers


\* AdvancedHX711::getValues against a watcher whose driver calls succeed,
\* while the object lives
NextConsumer ==
    \/ WXW_Switch /\ WXOthers
    \/ WXW_LockState /\ WXOthers
    \/ WXW_IsReady("level") /\ WXOthers
    \/ WXW_ReadValue("value") /\ WXOthers
    \/ WXW_LockValues /\ WXOthers
    \/ WXW_Push /\ WXOthers
    \/ WXW_UnlockState /\ WXOthers
    \/ WXW_Wake /\ WXOthers
    \/ (\E n \in 0..MaxCount : WXF_CallSamples(n)) /\ WXOthers
    \/ (\E t \in 0..MaxTimeout : WXF_CallTimeout(t)) /\ WXOthers
    \/ WXF_Clear /\ WXOthers
    \/ WXF_Watch /\ WXOthers
    \/ WXF_Fill /\ WXOthers
    \/ WXF_Poll /\ WXOthers
    \/ WXF_Deadline /\ WXOthers
    \/ WXF_LockValues /\ WXOthers
    \/ WXF_Drain /\ WXOthers
    \/ WXF_Pause /\ WXOthers
    \/ Tick /\ WXOthers
    \/ ChipConvert /\ UNCHANGED wxVars /\ WXOthers

\* the Watcher on its own: watch(), pause() and the destructor are called
\* while the thread runs
NextWatch ==
    \/ ~Aborted /\ WXW_Switch /\ WXOthers
    \/ ~Aborted /\ WXW_LockState /\ WXOthers
    \/ ~Aborted /\ (\E outcome \in IsReadyOutcomes : WXW_IsReady(outcome))
          /\ WXOthers
    \/ ~Aborted /\ (\E outcome \in ReadValueOutcomes : WXW_ReadValue(outcome))
          /\ WXOthers
    \/ ~Aborted /\ (\E outcome \in ReadValueOutcomes : WXW_Recover(outcome))
          /\ WXOthers
    \/ ~Aborted /\ WXW_LockValues /\ WXOthers
    \/ ~Aborted /\ WXW_Push /\ WXOthers
    \/ ~Aborted /\ WXW_UnlockState /\ WXOthers
    \/ ~Aborted /\ WXW_Wake /\ WXOthers
    \/ ~Aborted /\ WX_Watch /\ WXOthers
    \/ ~Aborted /\ WX_Pause /\ WXOthers
    \/ ~Aborted /\ WXF_Destroy /\ WXOthers
    \/ ~Aborted /\ Tick /\ WXOthers
    \/ ~Aborted /\ ChipConvert /\ UNCHANGED wxVars /\ WXOthers
    \/ ~Aborted /\ ChipDies /\ UNCHANGED wxVars /\ WXOthers

-----------------------------------------------------------------------------
(* Bit-level access to the chip: src/src/HX711.cpp, two calling threads *)

Threads == {"t1", "t2"}

\* HX711::_BYTES_PER_CONVERSION_PERIOD
BytesPerConversionPeriod == 3

\* the data bits of one conversion
DataBits == 8 * BytesPerConversionPeriod

\* HX711::_PULSES
PULSES(g) ==
    CASE g = "GAIN_128" -> 25
      [] g = "GAIN_32" -> 26
      [] g = "GAIN_64" -> 27

\* one trailing pulse whatever the gain
calculateOnePulse(g) == 1

\* HX711::_calculatePulses
calculatePulses(g) == PULSES(g) - (8 * BytesPerConversionPeriod)

\* the constructor's gain, which powerUp() leaves alone
DefaultGain == "GAIN_128"

\* a decoding that drops the sign bit
convertWithoutSign(val) == val % 8388608

\* HX711::_convertFromTwosComplement: -(val & 0x800000) + (val & 0x7fffff)
convertFromTwosComplement(val) ==
    -(((val \div 8388608) % 2) * 8388608) + (val % 8388608)

\* conversion words the chip shifts out: 0, 0x7fffff, 0x800000, 0x123456
ChipWords == {0, 8388607, 8388608, 1193046}

\* bit k (1 = first shifted out, the MSB) of a 24-bit word
WordBit(w, k) == (w \div (2 ^ (DataBits - k))) % 2

\* the level of DOUT: high while powered down or converting, low when a
\* conversion is ready, then one data bit after each of 24 rising edges,
\* and high again after them
Dout ==
    IF cm_chipOff \/ ~cm_chipReady THEN 1
    ELSE IF cm_chipEdge = 0 THEN 0
    ELSE IF cm_chipEdge <= DataBits THEN WordBit(cm_chipWord, cm_chipEdge)
    ELSE 1

\* HX711::_isReady: lgGpioRead(dataPin) == 0
cm_isReady == Dout = 0

\* lgGpioWrite(clockPin, level) and what the chip does on the edge: a
\* rising edge shifts the next bit out, a falling edge wakes a chip that
\* was powered down
WriteClock(level) ==
    /\ cm_clock' = level
    /\ IF cm_clock = 0 /\ level = 1 /\ ~cm_chipOff /\ cm_chipReady
       THEN /\ cm_chipEdge' = IF cm_chipEdge < PULSES("GAIN_64")
                              THEN cm_chipEdge + 1 ELSE cm_chipEdge
            /\ UNCHANGED <<cm_chipOff, cm_chipReady, cm_chipWord>>
       ELSE IF cm_clock = 1 /\ level = 0 /\ cm_chipOff
       THEN /\ cm_chipOff' = FALSE
            /\ cm_chipReady' = FALSE
            /\ cm_chipEdge' = 0
            /\ UNCHANGED cm_chipWord
       ELSE UNCHANGED <<cm_chipOff, cm_chipReady, cm_chipEdge, cm_chipWord>>

\* the thread holds _commLock and is between its first and last pin access
InSeq(t) ==
    cm_pc[t] \in {"high", "sample", "low", "unlock",
                  "pdLow", "pdHigh", "pdSleep", "puLow", "puUnlock"}

\* a conversion period ends with the clock low: a new word is ready.  A
\* period is far longer than a pulse sequence, so none ends inside one.
CM_ChipConvert(w) ==
    /\ ~cm_chipOff
    /\ cm_clock = 0
    /\ \A t \in Threads : ~InSeq(t)
    /\ cm_chipReady' = TRUE
    /\ cm_chipEdge' = 0
    /\ cm_chipWord' = w
    /\ UNCHANGED <<cm_chipOff, cm_clock, cm_commLock, cm_bitFormat,
                   cm_byteFormat, cm_pc, cm_n, cm_raw, cm_bit, cm_frame>>

NoRaw == <<0, 0, 0>>
NoFrame == {}

\* HX711::HX711 and begin(): formats MSB, the chip powered up and the
\* clock low, no call under way
CommInit ==
    /\ cm_commLock = NoOwner
    /\ cm_clock = 0
    /\ cm_bitFormat = "MSB"
    /\ cm_byteFormat = "MSB"
    /\ cm_chipOff = FALSE
    /\ cm_chipReady = FALSE
    /\ cm_chipEdge = 0
    /\ cm_chipWord = 0
    /\ cm_pc = [t \in Threads |-> "idle"]
    /\ cm_n = [t \in Threads |-> 0]
    /\ cm_raw = [t \in Threads |-> NoRaw]
    /\ cm_bit = [t \in Threads |-> 0]
    /\ cm_frame = [t \in Threads |-> NoFrame]

\* the pins while a specification does not use them
CommParked == CommInit

\* ---- HX711::testTiming(1): while(!_isReady()); _readInt(); ----

\* the call is made
CM_CallRead(t) ==
    /\ cm_pc[t] = "idle"
    /\ cm_pc' = [cm_pc EXCEPT ![t] = "waitReady"]
    /\ UNCHANGED <<cm_commLock, cm_clock, cm_bitFormat, cm_byteFormat,
                   cm_chipOff, cm_chipReady, cm_chipEdge, cm_chipWord, cm_n,
                   cm_raw, cm_bit, cm_frame>>

\* while(!this->_isReady());
CM_WaitReady(t) ==
    /\ cm_pc[t] = "waitReady"
    /\ cm_isReady
    /\ cm_pc' = [cm_pc EXCEPT ![t] = "lock"]
    /\ UNCHANGED <<cm_commLock, cm_clock, cm_bitFormat, cm_byteFormat,
                   cm_chipOff, cm_chipReady, cm_chipEdge, cm_chipWord, cm_n,
                   cm_raw, cm_bit, cm_frame>>

\* a lock that is taken although another thread holds it
CM_LockUnguarded(t, from, to) ==
    /\ cm_pc[t] = from
    /\ cm_commLock' = t
    /\ cm_pc' = [cm_pc EXCEPT ![t] = to]
    /\ cm_n' = [cm_n EXCEPT ![t] = 0]
    /\ cm_raw' = [cm_raw EXCEPT ![t] = NoRaw]
    /\ cm_frame' = [cm_frame EXCEPT ![t] = NoFrame]
    /\ UNCHANGED <<cm_clock, cm_bitFormat, cm_byteFormat, cm_chipOff,
                   cm_chipReady, cm_chipEdge, cm_chipWord, cm_bit>>

\* std::unique_lock / std::lock_guard on _commLock: blocks until it is free
CM_Lock(t, from, to) ==
    /\ cm_pc[t] = from
    /\ cm_commLock = NoOwner
    /\ cm_commLock' = t
    /\ cm_pc' = [cm_pc EXCEPT ![t] = to]
    /\ cm_n' = [cm_n EXCEPT ![t] = 0]
    /\ cm_raw' = [cm_raw EXCEPT ![t] = NoRaw]
    /\ cm_frame' = [cm_frame EXCEPT ![t] = NoFrame]
    /\ UNCHANGED <<cm_clock, cm_bitFormat, cm_byteFormat, cm_chipOff,
                   cm_chipReady, cm_chipEdge, cm_chipWord, cm_bit>>

\* _readRawBytes: unique_lock communication(_commLock)
CM_ReadLock(t) == CM_Lock(t, "lock", "high")

\* _readBit: lgGpioWrite(clockPin, 1).  At the first pulse the frame the
\* read starts on is noted, if the chip is at the start of one.
CM_ClockHigh(t) ==
    /\ cm_pc[t] = "high"
    /\ WriteClock(1)
    /\ cm_frame' = [cm_frame EXCEPT ![t] =
                      IF cm_n[t] = 0
                      THEN (IF ~cm_chipOff /\ cm_chipReady /\ cm_chipEdge = 0
                               /\ cm_clock = 0
                            THEN {cm_chipWord} ELSE NoFrame)
                      ELSE @]
    /\ cm_pc' = [cm_pc EXCEPT ![t] = "sample"]
    /\ UNCHANGED <<cm_commLock, cm_bitFormat, cm_byteFormat, cm_n, cm_raw,
                   cm_bit>>

\* _readBit: bit = lgGpioRead(dataPin) == 1
CM_Sample(t) ==
    /\ cm_pc[t] = "sample"
    /\ cm_bit' = [cm_bit EXCEPT ![t] = Dout]
    /\ cm_pc' = [cm_pc EXCEPT ![t] = "low"]
    /\ UNCHANGED <<cm_commLock, cm_clock, cm_bitFormat, cm_byteFormat,
                   cm_chipOff, cm_chipReady, cm_chipEdge, cm_chipWord, cm_n,
                   cm_raw, cm_frame>>

\* _readByte, one turn: MSB: val <<= 1; val |= bit
\*                      LSB: val >>= 1; val |= bit * 0x80
ShiftIn(val, bit, bitFormat) ==
    IF bitFormat = "MSB" THEN ((val * 2) % 256) + bit
    ELSE (val \div 2) + bit * 128

\* raw[i] after the n-th data bit has been taken in
TakeBit(raw, n, bit, bitFormat) ==
    LET i == ((n - 1) \div 8) + 1
    IN  [raw EXCEPT ![i] = ShiftIn(@, bit, bitFormat)]

\* _readBit: lgGpioWrite(clockPin, 0); return bit.  The first 24 bits go
\* into raw[]; the pulsesNeeded bits after them are dropped.
CM_ClockLow(t) ==
    /\ cm_pc[t] = "low"
    /\ WriteClock(0)
    /\ cm_n' = [cm_n EXCEPT ![t] = @ + 1]
    /\ cm_raw' = [cm_raw EXCEPT ![t] =
                    IF cm_n[t] + 1 <= DataBits
                    THEN TakeBit(@, cm_n[t] + 1, cm_bit[t], cm_bitFormat)
                    ELSE @]
    /\ cm_pc' = [cm_pc EXCEPT ![t] =
                    IF cm_n[t] + 1 < DataBits + calculatePulses(hx_gain)
                    THEN "high" ELSE "unlock"]
    /\ cm_bit' = [cm_bit EXCEPT ![t] = 0]
    /\ UNCHANGED <<cm_commLock, cm_bitFormat, cm_byteFormat, cm_frame>>

\* if(_byteFormat == LSB) std::swap(raw[0], raw[2])
SwapBytes(raw, byteFormat) ==
    IF byteFormat = "LSB" THEN <<raw[3], raw[2], raw[1]>> ELSE raw

\* _readInt: (bytes[0] << 16) | (bytes[1] << 8) | bytes[2]
TwosComp(bytes) == bytes[1] * 65536 + bytes[2] * 256 + bytes[3]

\* the Value _readInt returns for raw[]
ReadValue(raw, byteFormat) ==
    convertFromTwosComplement(TwosComp(SwapBytes(raw, byteFormat)))

\* communication.unlock()
CM_Unlock(t) ==
    /\ cm_pc[t] = "unlock"
    /\ cm_commLock' = IF cm_commLock = t THEN NoOwner ELSE cm_commLock
    /\ cm_pc' = [cm_pc EXCEPT ![t] = "swap"]
    /\ UNCHANGED <<cm_clock, cm_bitFormat, cm_byteFormat, cm_chipOff,
                   cm_chipReady, cm_chipEdge, cm_chipWord, cm_n, cm_raw,
                   cm_bit, cm_frame>>

\* the byte order is applied, _readInt builds the Value, the call returns
CM_Return(t) ==
    /\ cm_pc[t] = "swap"
    /\ cm_pc' = [cm_pc EXCEPT ![t] = "idle"]
    /\ cm_n' = [cm_n EXCEPT ![t] = 0]
    /\ cm_raw' = [cm_raw EXCEPT ![t] = NoRaw]
    /\ cm_frame' = [cm_frame EXCEPT ![t] = NoFrame]
    /\ UNCHANGED <<cm_commLock, cm_clock, cm_bitFormat, cm_byteFormat,
                   cm_chipOff, cm_chipReady, cm_chipEdge, cm_chipWord,
                   cm_bit>>

\* ---- HX711::powerDown ----

CM_CallPowerDown(t) ==
    /\ cm_pc[t] = "idle"
    /\ cm_pc' = [cm_pc EXCEPT ![t] = "pdLock"]
    /\ UNCHANGED <<cm_commLock, cm_clock, cm_bitFormat, cm_byteFormat,
                   cm_chipOff, cm_chipReady, cm_chipEdge, cm_chipWord, cm_n,
                   cm_raw, cm_bit, cm_frame>>

\* std::lock_guard lock(_commLock)
CM_PowerDownLock(t) == CM_Lock(t, "pdLock", "pdLow")

\* lgGpioWrite(clockPin, 0)
CM_PowerDownLow(t) ==
    /\ cm_pc[t] = "pdLow"
    /\ WriteClock(0)
    /\ cm_pc' = [cm_pc EXCEPT ![t] = "pdHigh"]
    /\ UNCHANGED <<cm_commLock, cm_bitFormat, cm_byteFormat, cm_n, cm_raw,
                   cm_bit, cm_frame>>

\* lgGpioWrite(clockPin, 1)
CM_PowerDownHigh(t) ==
    /\ cm_pc[t] = "pdHigh"
    /\ WriteClock(1)
    /\ cm_pc' = [cm_pc EXCEPT ![t] = "pdSleep"]
    /\ UNCHANGED <<cm_commLock, cm_bitFormat, cm_byteFormat, cm_n, cm_raw,
                   cm_bit, cm_frame>>

\* _sleepns(60us) with the clock high: the chip powers down; the
\* lock_guard is released on return
CM_PowerDownSleep(t) ==
    /\ cm_pc[t] = "pdSleep"
    /\ cm_chipOff' = (cm_clock = 1 \/ cm_chipOff)
    /\ cm_chipReady' = IF cm_clock = 1 THEN FALSE ELSE cm_chipReady
    /\ cm_commLock' = IF cm_commLock = t THEN NoOwner ELSE cm_commLock
    /\ cm_pc' = [cm_pc EXCEPT ![t] = "idle"]
    /\ UNCHANGED <<cm_clock, cm_bitFormat, cm_byteFormat, cm_chipEdge,
                   cm_chipWord, cm_n, cm_raw, cm_bit, cm_frame>>

\* ---- HX711::powerUp, the gain being 128 ----

CM_CallPowerUp(t) ==
    /\ cm_pc[t] = "idle"
    /\ cm_pc' = [cm_pc EXCEPT ![t] = "puLock"]
    /\ UNCHANGED <<cm_commLock, cm_clock, cm_bitFormat, cm_byteFormat,
                   cm_chipOff, cm_chipReady, cm_chipEdge, cm_chipWord, cm_n,
                   cm_raw, cm_bit, cm_frame>>

\* std::unique_lock lock(_commLock)
CM_PowerUpLock(t) == CM_Lock(t, "puLock", "puLow")

\* lgGpioWrite(clockPin, 0)
CM_PowerUpLow(t) ==
    /\ cm_pc[t] = "puLow"
    /\ WriteClock(0)
    /\ cm_pc' = [cm_pc EXCEPT ![t] = "puUnlock"]
    /\ UNCHANGED <<cm_commLock, cm_bitFormat, cm_byteFormat, cm_n, cm_raw,
                   cm_bit, cm_frame>>

\* lock.unlock(); the settling sleep; return
CM_PowerUpUnlock(t) ==
    /\ cm_pc[t] = "puUnlock"
    /\ cm_commLock' = IF cm_commLock = t THEN NoOwner ELSE cm_commLock
    /\ cm_pc' = [cm_pc EXCEPT ![t] = "idle"]
    /\ UNCHANGED <<cm_clock, cm_bitFormat, cm_byteFormat, cm_chipOff,
                   cm_chipReady, cm_chipEdge, cm_chipWord, cm_n, cm_raw,
                   cm_bit, cm_frame>>

\* ---- HX711::setFormat: lock_guard on _commLock around two stores ----

CM_SetFormat(t, bitF, byteF) ==
    /\ cm_pc[t] = "idle"
    /\ cm_commLock = NoOwner
    /\ cm_bitFormat' = bitF
    /\ cm_byteFormat' = byteF
    /\ UNCHANGED <<cm_commLock, cm_clock, cm_chipOff, cm_chipReady,
                   cm_chipEdge, cm_chipWord, cm_pc, cm_n, cm_raw, cm_bit,
                   cm_frame>>

Formats == {"MSB", "LSB"}

\* HX711::setConfig on a valid pair: _channel = c; _gain = g, stored without
\* any lock.  _readRawBytes computes pulsesNeeded once, after the third
\* byte, so a store made during the trailing pulses of a read acts on the
\* next read; it is taken here as made after them.
CM_StageConfig(t, c, g) ==
    /\ cm_pc[t] = "idle"
    /\ ~InvalidPair(c, g)
    /\ \A u \in Threads : cm_n[u] < DataBits
    /\ hx_channel' = c
    /\ hx_gain' = g
    /\ UNCHANGED <<hx_rate, cfg_pc, cfg_c, cfg_g, cfg_backup, cfg_pre,
                   cfg_result>>
    /\ UNCHANGED commVars

\* what a configuration step on the pins leaves alone
StageOthers == UNCHANGED <<scaleVars, chipVars, hxVars, wxVars, vsVars,
    vlVars, mdVars, msVars, puVars>>

\* what a step on the pins leaves alone
CommOthers == UNCHANGED <<scaleVars, chipVars, hxVars, wxVars, cfgVars,
    vsVars, vlVars, mdVars, msVars, puVars>>

NextComm ==
    \/ (\E t \in Threads : CM_CallRead(t)) /\ CommOthers
    \/ (\E t \in Threads : CM_WaitReady(t)) /\ CommOthers
    \/ (\E t \in Threads : CM_ReadLock(t)) /\ CommOthers
    \/ (\E t \in Threads : CM_ClockHigh(t)) /\ CommOthers
    \/ (\E t \in Threads : CM_Sample(t)) /\ CommOthers
    \/ (\E t \in Threads : CM_ClockLow(t)) /\ CommOthers
    \/ (\E t \in Threads : CM_Unlock(t)) /\ CommOthers
    \/ (\E t \in Threads : CM_Return(t)) /\ CommOthers
    \/ (\E t \in Threads : CM_CallPowerDown(t)) /\ CommOthers
    \/ (\E t \in Threads : CM_PowerDownLock(t)) /\ CommOthers
    \/ (\E t \in Threads : CM_PowerDownLow(t)) /\ CommOthers
    \/ (\E t \in Threads : CM_PowerDownHigh(t)) /\ CommOthers
    \/ (\E t \in Threads : CM_PowerDownSleep(t)) /\ CommOthers
    \/ (\E t \in Threads : CM_CallPowerUp(t)) /\ CommOthers
    \/ (\E t \in Threads : CM_PowerUpLock(t)) /\ CommOthers
    \/ (\E t \in Threads : CM_PowerUpLow(t)) /\ CommOthers
    \/ (\E t \in Threads : CM_PowerUpUnlock(t)) /\ CommOthers
    \/ (\E t \in Threads : \E bitF \in Formats : \E byteF \in Formats :
           CM_SetFormat(t, bitF, byteF)) /\ CommOthers
    \/ (\E w \in ChipWords : CM_ChipConvert(w)) /\ CommOthers
    \/ (\E t \in Threads : \E c \in Channels : \E g \in Gains :
           CM_StageConfig(t, c, g)) /\ StageOthers


-----------------------------------------------------------------------------
(* Value: src/src/Value.cpp, src/include/Value.h; HX711::_readInt *)

\* std::numeric_limits<int32_t>::max()
Int32Max == 2147483647

\* Value::SATURATION_MIN = 0x800000, Value::SATURATION_MAX = 0x7FFFFF
SaturationMin == 8388608
SaturationMax == 8388607

\* Value::isSaturated
isSaturated(v) == v = SaturationMin \/ v = SaturationMax

\* the chip's output word for a conversion result v: 24 bits, two's
\* complement, 800000h for the lowest and 7FFFFFh for the highest value
EncodeTwosComplement(v) == IF v < 0 THEN v + 16777216 ELSE v

\* 32-bit integers a Value is constructed from
ValueArgs ==
    {Int32Min, Int32Max, -1, 0, 1}
    \cup {ValueMin + d : d \in (-ValueSpan)..ValueSpan}
    \cup {ValueMax + d : d \in (-ValueSpan)..ValueSpan}
    \cup {-ValueMax + d : d \in (-ValueSpan)..ValueSpan}

\* bytes _readRawBytes can hand over
RawBytes == {0, 1, 127, 128, 255}

ValueRecord(op, ok, ret) == [op |-> op, ok |-> ok, ret |-> ret]

\* Value::Value(v) for any v, and any three bytes read
ValueInit ==
    /\ vl_v \in ValueArgs
    /\ vl_bytes \in [1..BytesPerConversionPeriod -> RawBytes]
    /\ vl_last = ValueRecord("none", FALSE, 0)

\* the Value while a specification does not use it
ValueParked ==
    /\ vl_v = 0
    /\ vl_bytes = [i \in 1..BytesPerConversionPeriod |-> 0]
    /\ vl_last = ValueRecord("none", FALSE, 0)

\* Value(v).isValid()
VL_isValid ==
    /\ vl_last' = ValueRecord("isValid", isValid(vl_v), 0)
    /\ UNCHANGED <<vl_v, vl_bytes>>

\* Value(v).isSaturated()
VL_isSaturated ==
    /\ vl_last' = ValueRecord("isSaturated", isSaturated(vl_v), 0)
    /\ UNCHANGED <<vl_v, vl_bytes>>

\* a default construction that yields 0
VL_ConstructZero ==
    /\ vl_last' = ValueRecord("Value()", isValid(0), 0)
    /\ UNCHANGED <<vl_v, vl_bytes>>

\* Value(): _v = std::numeric_limits<val_t>::min(); then isValid()
VL_Construct ==
    /\ vl_last' = ValueRecord("Value()", isValid(Int32Min), Int32Min)
    /\ UNCHANGED <<vl_v, vl_bytes>>

\* the chip sends v, a value of the 24-bit range;
\* _convertFromTwosComplement decodes the word
VL_Decode ==
    /\ vl_v >= ValueMin
    /\ vl_v <= ValueMax
    /\ vl_last' = ValueRecord("decode", TRUE,
                    convertFromTwosComplement(EncodeTwosComplement(vl_v)))
    /\ UNCHANGED <<vl_v, vl_bytes>>

\* _readInt on the three bytes
VL_readInt ==
    /\ vl_last' = ValueRecord("readInt", TRUE,
                    convertFromTwosComplement(TwosComp(vl_bytes)))
    /\ UNCHANGED <<vl_v, vl_bytes>>

-----------------------------------------------------------------------------
(* Utility::median on its own: src/include/Utility.h *)

MedianRecord(op, ret) == [op |-> op, ret |-> ret]

\* any non-empty vector of readings
MedianInit ==
    /\ md_vals \in SeqsOf(RawVals, 1, MaxMedianLen)
    /\ md_last = MedianRecord("none", NoFrac)

\* the vector while a specification does not use it
MedianParked ==
    /\ md_vals = <<>>
    /\ md_last = MedianRecord("none", NoFrac)

\* Utility::median(&vals)
MD_median ==
    /\ md_vals # <<>>
    /\ md_last' = MedianRecord("median", median(md_vals))
    /\ UNCHANGED md_vals

\* the caller hands over the same readings in another order
MD_Reorder(i, j) ==
    /\ i \in 1..Len(md_vals)
    /\ j \in 1..Len(md_vals)
    /\ i < j
    /\ md_vals[i] # md_vals[j]
    /\ md_vals' = [md_vals EXCEPT ![i] = md_vals[j], ![j] = md_vals[i]]
    /\ md_last' = MedianRecord("none", NoFrac)

-----------------------------------------------------------------------------
(* Mass: src/src/Mass.cpp *)

\* A double is kept exactly, as n / d times a product of powers of the
\* primes that occur in the ratios; n and d hold none of these primes and
\* have no common factor, so equal numbers are equal records.
MassPrimes == <<2, 5, 7, 11, 97, 6073>>

PrimeCount == Len(MassPrimes)

RECURSIVE Pow(_, _)
Pow(b, k) == IF k = 0 THEN 1 ELSE b * Pow(b, k - 1)

\* how often the prime p divides m, m not 0
RECURSIVE ExpOf(_, _)
ExpOf(m, p) == IF m % p = 0 THEN 1 + ExpOf(m \div p, p) ELSE 0

RECURSIVE GCD(_, _)
GCD(a, b) == IF b = 0 THEN a ELSE GCD(b, a % b)

\* the product of the first k primes raised to the exponents e
RECURSIVE ProdPow(_, _)
ProdPow(e, k) ==
    IF k = 0 THEN 1 ELSE Pow(MassPrimes[k], e[k]) * ProdPow(e, k - 1)

NumZero == [n |-> 0, d |-> 1, e |-> [i \in 1..PrimeCount |-> 0]]

\* the number n / d * prod(MassPrimes[i] ^ e[i]), d > 0, in its normal form
Num(n, d, e) ==
    IF n = 0 THEN NumZero
    ELSE LET en == [i \in 1..PrimeCount |-> ExpOf(n, MassPrimes[i])]
             ed == [i \in 1..PrimeCount |-> ExpOf(d, MassPrimes[i])]
             n1 == n \div ProdPow(en, PrimeCount)
             d1 == d \div ProdPow(ed, PrimeCount)
             g == GCD(Abs(n1), d1)
         IN  [n |-> n1 \div g, d |-> d1 \div g,
              e |-> [i \in 1..PrimeCount |-> e[i] + en[i] - ed[i]]]

\* double * double
NumMul(a, b) ==
    Num(a.n * b.n, a.d * b.d, [i \in 1..PrimeCount |-> a.e[i] + b.e[i]])

\* double / double, the divisor not 0
NumDiv(a, b) ==
    Num((IF b.n < 0 THEN -1 ELSE 1) * a.n * b.d, a.d * Abs(b.n),
        [i \in 1..PrimeCount |-> a.e[i] - b.e[i]])

\* double + double
NumAdd(a, b) ==
    IF a.n = 0 THEN b
    ELSE IF b.n = 0 THEN a
    ELSE LET m == [i \in 1..PrimeCount |->
                      IF a.e[i] < b.e[i] THEN a.e[i] ELSE b.e[i]]
             ra == a.n * ProdPow([i \in 1..PrimeCount |-> a.e[i] - m[i]],
                                 PrimeCount)
             rb == b.n * ProdPow([i \in 1..PrimeCount |-> b.e[i] - m[i]],
                                 PrimeCount)
         IN  Num(ra * b.d + rb * a.d, a.d * b.d, m)

\* double - double
NumSub(a, b) == NumAdd(a, [b EXCEPT !.n = -b.n])

\* Mass::Unit
Units == {"UG", "MG", "G", "KG", "TON", "IMP_TON", "US_TON", "ST", "LB", "OZ"}

\* Mass::_RATIOS, micrograms per unit:
\*   MG 1000 = 2^3 5^3, G 10^6, KG 10^9, TON 10^12,
\*   IMP_TON 1016046908800 = 2^7 5^2 7^2 11 97 6073,
\*   US_TON 907184740000 = 2^5 5^4 7 11 97 6073,
\*   ST 6350293180 = 2^2 5 7^2 11 97 6073,
\*   LB 453592370 = 2 5 7 11 97 6073,
\*   OZ 28349523.125 = 2^-3 5 7 11 97 6073
RATIOS(u) ==
    [n |-> 1, d |-> 1,
     e |-> CASE u = "UG" -> <<0, 0, 0, 0, 0, 0>>
             [] u = "MG" -> <<3, 3, 0, 0, 0, 0>>
             [] u = "G" -> <<6, 6, 0, 0, 0, 0>>
             [] u = "KG" -> <<9, 9, 0, 0, 0, 0>>
             [] u = "TON" -> <<12, 12, 0, 0, 0, 0>>
             [] u = "IMP_TON" -> <<7, 2, 2, 1, 1, 1>>
             [] u = "US_TON" -> <<5, 4, 1, 1, 1, 1>>
             [] u = "ST" -> <<2, 1, 2, 1, 1, 1>>
             [] u = "LB" -> <<1, 1, 1, 1, 1, 1>>
             [] u = "OZ" -> <<-3, 1, 1, 1, 1, 1>>]

\* Mass::convert
RECURSIVE convert(_, _, _)
convert(amount, from, to) ==
    IF from = to THEN amount
    ELSE IF to = "UG" THEN NumMul(amount, RATIOS(from))
    ELSE IF from = "UG" THEN NumDiv(amount, RATIOS(to))
    ELSE convert(amount, to, "UG")

\* Mass::Mass(amount, u): _ug(convert(amount, u, Unit::UG)), _u(u)
Mass(amount, u) == [ug |-> convert(amount, u, "UG"), u |-> u]

\* operator+, operator-, operator*, operator/ (the divisor's _ug not 0)
MassPlus(lhs, rhs) == Mass(NumAdd(lhs.ug, rhs.ug), lhs.u)
MassMinus(lhs, rhs) == Mass(NumSub(lhs.ug, rhs.ug), lhs.u)
MassTimes(lhs, rhs) == Mass(NumMul(lhs.ug, rhs.ug), lhs.u)
MassDivide(lhs, rhs) == Mass(NumDiv(lhs.ug, rhs.ug), lhs.u)

\* whole numbers of micrograms a Mass of the model holds
MassAmounts == ((-MaxAmount)..MaxAmount) \cup {1000 * MaxAmount}

\* Mass(x, Unit::UG) followed by setUnit(u): _ug = x, _u = u
Masses == {[ug |-> Num(x, 1, NumZero.e), u |-> u] :
              x \in MassAmounts, u \in Units}

NoMass == [ug |-> NumZero, u |-> "UG"]

MassRecord(op, err, num, mass) ==
    [op |-> op, err |-> err, num |-> num, mass |-> mass]

\* two Mass objects have been constructed
MassInit ==
    /\ ms_a \in Masses
    /\ ms_b \in Masses
    /\ ms_last = MassRecord("none", "none", NumZero, NoMass)

\* the objects while a specification does not use them
MassParked ==
    /\ ms_a = NoMass
    /\ ms_b = NoMass
    /\ ms_last = MassRecord("none", "none", NumZero, NoMass)

\* Mass::convert(x, A, B) with x the amount of a, A its unit, B the unit of b
MS_Convert ==
    /\ ms_last' = MassRecord("convert", "none",
                             convert(ms_a.ug, ms_a.u, ms_b.u), NoMass)
    /\ UNCHANGED <<ms_a, ms_b>>

\* Mass::convert(Mass::convert(x, A, B), B, A)
MS_RoundTrip ==
    /\ ms_last' = MassRecord("roundtrip", "none",
                             convert(convert(ms_a.ug, ms_a.u, ms_b.u),
                                     ms_b.u, ms_a.u),
                             NoMass)
    /\ UNCHANGED <<ms_a, ms_b>>

\* a + b
MS_Plus ==
    /\ ms_last' = MassRecord("+", "none", NumZero, MassPlus(ms_a, ms_b))
    /\ UNCHANGED <<ms_a, ms_b>>

\* a - b
MS_Minus ==
    /\ ms_last' = MassRecord("-", "none", NumZero, MassMinus(ms_a, ms_b))
    /\ UNCHANGED <<ms_a, ms_b>>

\* a * b
MS_Times ==
    /\ ms_last' = MassRecord("*", "none", NumZero, MassTimes(ms_a, ms_b))
    /\ UNCHANGED <<ms_a, ms_b>>

\* a / b: if(rhs._ug == 0) throw std::invalid_argument
MS_Divide ==
    /\ ms_last' =
           IF ms_b.ug = NumZero
           THEN MassRecord("/", "invalid_argument", NumZero, NoMass)
           ELSE MassRecord("/", "none", NumZero, MassDivide(ms_a, ms_b))
    /\ UNCHANGED <<ms_a, ms_b>>

-----------------------------------------------------------------------------
(* Specifications *)

\* what a step of the driver leaves alone
HXOthers == UNCHANGED <<scaleVars, wxVars, commVars, cfgVars,
    vsVars, vlVars, mdVars, msVars, puVars>>

HXNext ==
    \/ HXW_LockState /\ HXOthers
    \/ HXW_End /\ HXOthers
    \/ HXW_Pause /\ HXOthers
    \/ HXW_Normal /\ HXOthers
    \/ HXW_LockReady /\ HXOthers
    \/ HXW_IsReady /\ HXOthers
    \/ HXW_ReadInt /\ HXOthers
    \/ HXW_UnlockState /\ HXOthers
    \/ HXW_Wake /\ HXOthers
    \/ HXW_Exit /\ HXOthers
    \/ HXF_SetNormal /\ HXOthers
    \/ HXF_Loop /\ HXOthers
    \/ HXF_Lock /\ HXOthers
    \/ HXF_Wait /\ HXOthers
    \/ HXF_WaitTimesOut /\ HXOthers
    \/ HXF_WaitSpurious /\ HXOthers
    \/ HXF_WaitReturns /\ HXOthers
    \/ HXF_SetPause /\ HXOthers
    \/ (\E len \in 0..MaxLen : HXF_Call(len)) /\ HXOthers
    \/ HXF_Destroy /\ HXOthers
    \/ ChipConvert /\ UNCHANGED hxVars /\ HXOthers
    \/ ChipDies /\ UNCHANGED hxVars /\ HXOthers

InitHX == ScaleParked /\ ChipInit /\ HXInit /\ WXParked /\ CommParked /\ CfgParked
    /\ VSParked /\ ValueParked
    /\ MedianParked
    /\ MassParked
    /\ PowerParked

SpecHX == InitHX /\ [][HXNext]_vars

\* the scheduler runs every thread that can run, and time passes
FairSpecHX ==
    /\ SpecHX
    /\ WF_vars(HXWatcherNext /\ HXOthers)
    /\ WF_vars(HXCallNext /\ HXOthers)

-----------------------------------------------------------------------------
(* The scale engine on its own *)

ScaleOthers == UNCHANGED <<chipVars, hxVars, wxVars, commVars, cfgVars,
    vsVars, vlVars, mdVars, msVars, puVars>>

NextScale ==
    \/ (\E refUnit \in RefUnitArgs : SetReferenceUnit(refUnit)) /\ ScaleOthers
    \/ (\E offset \in OffsetArgs : SetOffset(offset)) /\ ScaleOthers
    \/ (\E o \in OptionsSet : \E got \in GetValuesOutcomes(o) : Read(o, got))
           /\ ScaleOthers
    \/ (\E o \in OptionsSet : \E got \in GetValuesOutcomes(o) : Zero(o, got))
           /\ ScaleOthers

InitScale == ScaleInit /\ ChipInit /\ HXParked /\ WXParked /\ CommParked /\ CfgParked
    /\ VSParked /\ ValueParked
    /\ MedianParked
    /\ MassParked
    /\ PowerParked

SpecScale == InitScale /\ [][NextScale]_vars

\* the separate Watcher and its consumer
InitWX == ScaleParked /\ ChipInit /\ HXParked /\ WXInit /\ CommParked /\ CfgParked
    /\ VSParked /\ ValueParked
    /\ MedianParked
    /\ MassParked
    /\ PowerParked

SpecWX == InitWX /\ [][NextWX]_vars

SpecWatch == InitWX /\ [][NextWatch]_vars

SpecConsumer == InitWX /\ [][NextConsumer]_vars

\* the scheduler runs every thread that can run, a caller blocked on a mutex
\* that is released again and again gets it in the end, and time passes
FairSpecWX ==
    /\ SpecWX
    /\ WF_vars(~Aborted /\ WXWatcherNext /\ WXOthers)
    /\ SF_vars(~Aborted /\ WXCallNext /\ WXOthers)
    /\ WF_vars(~Aborted /\ Tick /\ WXOthers)

\* two threads on the pins
InitComm == ScaleParked /\ ChipInit /\ HXParked /\ WXParked /\ CommInit /\ CfgParked
    /\ VSParked /\ ValueParked
    /\ MedianParked
    /\ MassParked
    /\ PowerParked

SpecComm == InitComm /\ [][NextComm]_vars

\* setConfig on the driver with the built-in watcher
CfgOthers == UNCHANGED <<scaleVars, wxVars, commVars, vsVars, vlVars,
    mdVars, msVars, puVars>>

NextCfg ==
    \/ HXW_LockState /\ HXOthers
    \/ HXW_End /\ HXOthers
    \/ HXW_Pause /\ HXOthers
    \/ HXW_Normal /\ HXOthers
    \/ HXW_LockReady /\ HXOthers
    \/ HXW_IsReady /\ HXOthers
    \/ HXW_ReadInt /\ HXOthers
    \/ HXW_UnlockState /\ HXOthers
    \/ HXW_Wake /\ HXOthers
    \/ HXW_Exit /\ HXOthers
    \/ HXF_SetNormal /\ HXOthers
    \/ HXF_Loop /\ HXOthers
    \/ HXF_Lock /\ HXOthers
    \/ HXF_Wait /\ HXOthers
    \/ HXF_WaitTimesOut /\ HXOthers
    \/ HXF_WaitSpurious /\ HXOthers
    \/ HXF_WaitReturns /\ HXOthers
    \/ HXF_SetPause /\ HXOthers
    \/ HXF_Call(1) /\ CFG_Forget /\ CfgOthers
    \/ HXF_Destroy /\ CFG_Forget /\ CfgOthers
    \/ (\E c \in Channels : \E g \in Gains : \E r \in Rates :
           CFG_Call(c, g, r)) /\ CfgOthers
    \/ CFG_Finish /\ CfgOthers
    \/ ChipConvert /\ UNCHANGED hxVars /\ HXOthers
    \/ ChipDies /\ UNCHANGED hxVars /\ HXOthers

InitCfg == ScaleParked /\ ChipInit /\ HXInit /\ WXParked /\ CommParked /\ CfgInit
    /\ VSParked /\ ValueParked
    /\ MedianParked
    /\ MassParked
    /\ PowerParked

SpecCfg == InitCfg /\ [][NextCfg]_vars

\* a ValueStack used by one thread
VSOthers == UNCHANGED <<scaleVars, chipVars, hxVars, wxVars, commVars,
    cfgVars, vlVars, mdVars, msVars, puVars>>

NextVS ==
    \/ (\E val \in StackVals : VSPush(val)) /\ VSOthers
    \/ VSPop /\ VSOthers
    \/ VSSize /\ VSOthers
    \/ VSClear /\ VSOthers
    \/ VSTick /\ VSOthers

InitVS == ScaleParked /\ ChipInit /\ HXParked /\ WXParked /\ CommParked
    /\ CfgParked /\ VSInit /\ ValueParked
    /\ MedianParked
    /\ MassParked
    /\ PowerParked

SpecVS == InitVS /\ [][NextVS]_vars

\* the functions of Value and the decoding of a conversion
ValueOthers == UNCHANGED <<scaleVars, chipVars, hxVars, wxVars, commVars,
    cfgVars, vsVars, mdVars, msVars, puVars>>

NextValue ==
    \/ VL_isValid /\ ValueOthers
    \/ VL_isSaturated /\ ValueOthers
    \/ VL_Construct /\ ValueOthers
    \/ VL_Decode /\ ValueOthers
    \/ VL_readInt /\ ValueOthers

InitValue == ScaleParked /\ ChipInit /\ HXParked /\ WXParked /\ CommParked
    /\ CfgParked /\ VSParked /\ ValueInit
    /\ MedianParked
    /\ MassParked
    /\ PowerParked

SpecValue == InitValue /\ [][NextValue]_vars

\* the median of a vector of readings
MedianOthers == UNCHANGED <<scaleVars, chipVars, hxVars, wxVars, commVars,
    cfgVars, vsVars, vlVars, msVars, puVars>>

NextMedian ==
    \/ MD_median /\ MedianOthers
    \/ (\E i \in 1..MaxMedianLen : \E j \in 1..MaxMedianLen :
           MD_Reorder(i, j)) /\ MedianOthers

InitMedian == ScaleParked /\ ChipInit /\ HXParked /\ WXParked /\ CommParked
    /\ CfgParked /\ VSParked /\ ValueParked /\ MedianInit
    /\ MassParked
    /\ PowerParked

SpecMedian == InitMedian /\ [][NextMedian]_vars

\* conversions and arithmetic on Mass
NextMass ==
    \/ MS_Convert /\ UNCHANGED <<scaleVars, chipVars, hxVars, wxVars,
                                 commVars, cfgVars, vsVars, vlVars, mdVars,
                   puVars>>
    \/ MS_RoundTrip /\ UNCHANGED <<scaleVars, chipVars, hxVars, wxVars,
                                   commVars, cfgVars, vsVars, vlVars, mdVars,
                   puVars>>
    \/ MS_Plus /\ UNCHANGED <<scaleVars, chipVars, hxVars, wxVars,
                              commVars, cfgVars, vsVars, vlVars, mdVars,
                   puVars>>
    \/ MS_Minus /\ UNCHANGED <<scaleVars, chipVars, hxVars, wxVars,
                               commVars, cfgVars, vsVars, vlVars, mdVars,
                   puVars>>
    \/ MS_Times /\ UNCHANGED <<scaleVars, chipVars, hxVars, wxVars,
                               commVars, cfgVars, vsVars, vlVars, mdVars,
                   puVars>>
    \/ MS_Divide /\ UNCHANGED <<scaleVars, chipVars, hxVars, wxVars,
                                commVars, cfgVars, vsVars, vlVars, mdVars,
                   puVars>>

InitMass == ScaleParked /\ ChipInit /\ HXParked /\ WXParked /\ CommParked
    /\ CfgParked /\ VSParked /\ ValueParked /\ MedianParked /\ MassInit
    /\ PowerParked

SpecMass == InitMass /\ [][NextMass]_vars

\* powerUp and setConfig on a driver, with the built-in watcher, that is
\* not destroyed
PowerOthers == UNCHANGED <<scaleVars, wxVars, commVars, vsVars, vlVars,
    mdVars, msVars>>

NextPower ==
    \/ HXW_LockState /\ HXOthers
    \/ HXW_Pause /\ HXOthers
    \/ HXW_Normal /\ HXOthers
    \/ HXW_LockReady /\ HXOthers
    \/ HXW_IsReady /\ HXOthers
    \/ HXW_ReadInt /\ HXOthers
    \/ HXW_UnlockState /\ HXOthers
    \/ HXW_Wake /\ HXOthers
    \/ HXF_SetNormal /\ HXOthers
    \/ HXF_Loop /\ HXOthers
    \/ HXF_Lock /\ HXOthers
    \/ HXF_Wait /\ HXOthers
    \/ HXF_WaitTimesOut /\ HXOthers
    \/ HXF_WaitSpurious /\ HXOthers
    \/ HXF_WaitReturns /\ HXOthers
    \/ HXF_SetPause /\ HXOthers
    \/ (\E c \in Channels : \E g \in Gains : \E r \in Rates :
           CFG_Call(c, g, r)) /\ PU_Forget /\ PowerOthers
    \/ CFG_Finish /\ CfgOthers
    \/ PU_Call /\ PowerOthers
    \/ PU_Return /\ PowerOthers
    \/ ChipConvert /\ UNCHANGED hxVars /\ HXOthers
    \/ ChipDies /\ UNCHANGED hxVars /\ HXOthers

InitPower == ScaleParked /\ ChipInit /\ HXInit /\ WXParked /\ CommParked /\ CfgInit
    /\ VSParked /\ ValueParked /\ MedianParked /\ MassParked /\ PowerInit

SpecPower == InitPower /\ [][NextPower]_vars

-----------------------------------------------------------------------------
(* Claims on the built-in watcher *)

\* C1: whenever a getValues call finishes, by returning or by throwing
\* TimeoutException, the watch state is PAUSE when control leaves the call.
C1_StatePausedAfterGetValues ==
    (hx_fpc = "idle" /\ hx_result \in {"returned", "TimeoutException"})
        => hx_watchState = "PAUSE"

\* C2: a sample-count getValues call terminates: when the chip never
\* signals ready after the call has begun, the call ends (by throwing
\* TimeoutException) after a finite time.
C2_GetValuesTerminates ==
    (hx_fpc # "idle" /\ hx_len >= 1 /\ chipDead) ~> (hx_fpc = "idle")

-----------------------------------------------------------------------------
(* Claims on the scale engine *)

\* C3: while the watch state is PAUSE and the call that set it has returned,
\* the watcher makes no driver call (isReady, readValue) and pushes no value.
C3_IdleWatcherDoesNoHardwareAccess ==
    [][(wx_watchState = "PAUSE" /\ wx_fpc = "idle")
          => wx_gpioOps' = wx_gpioOps]_vars

\* C4: at most one thread at a time is between the first and the last pin
\* access of a read or of powerDown, and it holds _commLock; a finished read
\* has made exactly PULSES pulses and its word decodes to a value within
\* [MIN, MAX]; a read that started on a fresh conversion finds the chip
\* having seen exactly those pulses and has assembled that conversion's 24
\* bits in the order of the bit format.
C4_PinAccessSerialised ==
    LET bitAt(b, k) == (b \div (2 ^ k)) % 2
        reverse(b) == bitAt(b, 0) * 128 + bitAt(b, 1) * 64 + bitAt(b, 2) * 32
                      + bitAt(b, 3) * 16 + bitAt(b, 4) * 8 + bitAt(b, 5) * 4
                      + bitAt(b, 6) * 2 + bitAt(b, 7)
        bytesOf(w) == <<w \div 65536, (w \div 256) % 256, w % 256>>
        inOrder(w, bitFormat) ==
            IF bitFormat = "MSB" THEN bytesOf(w)
            ELSE <<reverse(bytesOf(w)[1]), reverse(bytesOf(w)[2]),
                   reverse(bytesOf(w)[3])>>
    IN  /\ \A t1 \in Threads : \A t2 \in Threads :
              (InSeq(t1) /\ InSeq(t2)) => t1 = t2
        /\ \A t \in Threads : InSeq(t) => cm_commLock = t
        /\ \A t \in Threads : cm_pc[t] \in {"unlock", "swap"} =>
              /\ cm_n[t] = PULSES(hx_gain)
              /\ isValid(ReadValue(cm_raw[t], cm_byteFormat))
        /\ \A t \in Threads : (cm_pc[t] = "unlock" /\ cm_frame[t] # NoFrame) =>
              /\ cm_chipEdge = PULSES(hx_gain)
              /\ \A w \in cm_frame[t] : cm_raw[t] = inOrder(w, cm_bitFormat)

\* a read of a conversion that is neither all zeros nor all ones has made
\* its last pulse while the other thread waits for _commLock
C4_ReadDoneWhileOtherWaits ==
    \E t1 \in Threads : \E t2 \in Threads :
        /\ t1 # t2
        /\ cm_pc[t1] = "unlock"
        /\ cm_frame[t1] = {1193046}
        /\ cm_pc[t2] \in {"lock", "pdLock"}

\* C5: getValues(samples) returns exactly `samples` readings, in the order
\* the watcher produced them (readings are numbered by conversion).
C5_SamplesInProductionOrder ==
    (wx_call = "samples" /\ wx_fpc = "idle" /\ wx_result = "returned")
        => /\ Len(wx_vals) = wx_samples
           /\ \A i \in 1..Len(wx_vals) : \A j \in 1..Len(wx_vals) :
                  i < j => wx_vals[i] < wx_vals[j]

\* C6: a getValues(timeout) call that is under way always returns.
C6_TimedCallReturns ==
    (wx_call = "timeout" /\ wx_fpc # "idle")
        ~> (wx_call = "timeout" /\ wx_fpc = "idle" /\ wx_result = "returned")

\* C7: no exception of a driver call leaves the watcher's thread function,
\* and the thread ends only once the state is END.
C7_WatcherContainsDriverErrors ==
    /\ wx_wpc # "terminated"
    /\ wx_wpc = "ended" => wx_watchState = "END"

\* C8: once the destructor has returned, the watcher thread takes no step
\* that touches a lock, the value stack or the GPIO handle.
C8_WatcherStoppedBeforeRelease ==
    [][wx_destroyed =>
          UNCHANGED <<wx_pinWatchLock, wx_valuesLock, wx_values,
                      wx_gpioOps>>]_vars

\* C9: zero() has a strong rollback guarantee: when the read inside it
\* fails, the reference unit and the offset both equal their values from
\* before the call once the error has propagated.
C9_ZeroRollsBack ==
    (sc_last.op = "zero" /\ sc_last.err # "none")
        => (sc_refUnit = sc_last.preRef /\ sc_offset = sc_last.preOff)

\* C10: for every non-zero reference unit and every offset held before the
\* call, a read on an input constant at X that follows a successful zero on
\* the same constant input returns 0.
C10_ReadAfterZeroIsZero ==
    (/\ sc_last.op = "read" /\ sc_last.err = "none"
     /\ sc_prevZeroX # NoConst /\ sc_last.constX = sc_prevZeroX
     /\ sc_refUnit # 0)
        => IsZeroFrac(sc_last.val)

\* C11: the reference unit of a scale is non-zero in every reachable state,
\* from construction on.
C11_RefUnitNonZero == sc_refUnit # 0

\* C12: setReferenceUnit(0) fails with invalid_argument and leaves reference
\* unit and offset as they were; setReferenceUnit(v), v # 0, stores v.
C12_SetReferenceUnitValidates ==
    sc_last.op = "setReferenceUnit" =>
        /\ sc_offset = sc_last.preOff
        /\ IF sc_last.arg = 0
           THEN sc_last.err = "invalid_argument" /\ sc_refUnit = sc_last.preRef
           ELSE sc_last.err = "none" /\ sc_refUnit = sc_last.arg

\* setReferenceUnit(0) has been refused on a scale calibrated to -2 and 2
C12_ZeroRefused ==
    /\ sc_last.op = "setReferenceUnit"
    /\ sc_last.arg = 0
    /\ sc_last.err = "invalid_argument"
    /\ sc_last.preRef = -2
    /\ sc_last.preOff = 2

\* C13: setConfig with channel A and gain 32, or channel B and a gain other
\* than 32, ends with invalid_argument without entering getValue(): channel,
\* gain and watch state are what they were when the call was made.
C13_InvalidConfigRejectedFirst ==
    ((cfg_pc # "idle" \/ cfg_result # "none") /\ InvalidPair(cfg_c, cfg_g))
        => /\ cfg_result = "invalid_argument"
           /\ cfg_pc = "idle"
           /\ hx_fpc = "idle"
           /\ hx_channel = cfg_pre.channel
           /\ hx_gain = cfg_pre.gain
           /\ hx_watchState = cfg_pre.state

\* setConfig(B, 64) has been refused on a driver set to channel A, gain 64
C13_InvalidPairRefused ==
    /\ cfg_result = "invalid_argument"
    /\ cfg_c = "B" /\ cfg_g = "GAIN_64"
    /\ cfg_pre.channel = "A" /\ cfg_pre.gain = "GAIN_64"

\* C14: when setConfig ends with an error after it has staged a valid pair,
\* channel and gain are what they were when the call was made.
C14_FailedConfigRestored ==
    (cfg_pc = "idle" /\ cfg_result \notin {"none", "returned", "invalid_argument"})
        => (hx_channel = cfg_pre.channel /\ hx_gain = cfg_pre.gain)

\* setConfig(B, 32) has timed out on a driver set to channel A, gain 64
C14_TimedOutAfterStaging ==
    /\ cfg_pc = "idle"
    /\ cfg_result = "TimeoutException"
    /\ cfg_c = "B" /\ cfg_g = "GAIN_32"
    /\ cfg_pre.channel = "A" /\ cfg_pre.gain = "GAIN_64"

\* C15: once the watch state is END, no step changes it again.
C15_EndIsTerminal ==
    [][/\ wx_watchState = "END" => wx_watchState' = "END"
       /\ hx_watchState = "END" => hx_watchState' = "END"]_vars

\* the state has been set to END and the watcher thread has left its loop
C15_StoppedAndExited ==
    /\ hx_watchState = "END"
    /\ hx_destroyed
    /\ hx_wpc = "ended"

\* C16: every mutation of the watcher's value stack is made by a thread
\* that holds the values lock: the caller for clear and pop, the watcher
\* thread for push.
C16_ValuesMutatedUnderLock ==
    [][/\ (wx_fpc = "clear" /\ wx_fpc' = "watch") => wx_valuesLock = "fg"
       /\ (wx_fpc = "drain" /\ wx_vals' # wx_vals) => wx_valuesLock = "fg"
       /\ (wx_wpc = "push" /\ wx_wpc' = "unlockState")
             => wx_valuesLock = "watcher"]_vars

\* C17: a ValueStack with maxSize >= 1 never stores more than maxSize
\* entries, whatever pushes, pops and clears are made; a push leaves the
\* pushed value at the front, so a push onto a full stack has evicted.
C17_SizeNeverExceedsMaxSize ==
    /\ Len(vs_container) <= vs_maxSize
    /\ vs_last.op = "push"
          => (~VS_empty(vs_container)
                /\ Head(vs_container).val = vs_last.arg)

\* a push has been made onto a stack that held maxSize entries, and it holds
\* maxSize entries afterwards
C17_PushedOntoFullStack ==
    /\ vs_last.op = "push"
    /\ vs_maxSize >= 2
    /\ vs_last.preLen = vs_maxSize
    /\ Len(vs_container) = vs_maxSize

\* C18: right after a push, a pop or a size query the stack holds no entry
\* older than maxAge, and size has counted none.
C18_NoEntryOlderThanMaxAge ==
    vs_last.op \in {"push", "pop", "size"}
        => /\ \A i \in 1..Len(vs_container) :
                 vs_now - vs_container[i].when <= vs_maxAge
           /\ vs_last.op = "size" => vs_last.ret = Len(vs_container)

\* C19: the watch state is never changed while the watcher thread is
\* between its readiness check and the publication of the value read in that
\* iteration (the _lastVal store of the built-in watcher, the push of the
\* separate one).
C19_NoStateChangeDuringRead ==
    [][/\ hx_wpc \in {"isReady", "readInt"}
             => hx_watchState' = hx_watchState
       /\ wx_wpc \in {"isReady", "readValue", "recover", "lockValues", "push"}
             => wx_watchState' = wx_watchState]_vars

\* getValues is about to set PAUSE while the watcher, holding the state
\* lock, has found the chip ready and is about to read
C19_PauseRequestedDuringRead ==
    /\ hx_fpc = "setPause"
    /\ hx_wpc = "readInt"
    /\ hx_pinWatchLock = "watcher"

\* C20: the watcher thread does not hold the state lock while it makes a
\* bit-level read: the readValue of an iteration, the reads of the recovery
\* loop, or the _readInt of the built-in watcher.
C20_StateLockNotHeldAcrossRead ==
    [][/\ (wx_wpc \in {"readValue", "recover"} /\ wx_gpioOps' # wx_gpioOps)
             => wx_pinWatchLock # "watcher"
       /\ (hx_wpc = "readInt" /\ hx_wpc' = "unlockState")
             => hx_pinWatchLock # "watcher"]_vars

\* C21: decoding the 24-bit two's-complement word of any v of the 24-bit
\* range yields v, and the value _readInt decodes from any three bytes lies
\* in [-0x800000, 0x7FFFFF].
C21_TwosComplementRoundTrip ==
    /\ vl_last.op = "decode" => vl_last.ret = vl_v
    /\ vl_last.op = "readInt"
          => (vl_last.ret >= -8388608 /\ vl_last.ret <= 8388607)

\* the lowest value of the range has been encoded and decoded
C21_LowestValueDecoded ==
    /\ vl_last.op = "decode"
    /\ vl_v = -8388608

\* C22: isValid() is true exactly for -0x800000 <= v <= 0x7FFFFF.
C22_IsValidIffInRange ==
    vl_last.op = "isValid"
        => (vl_last.ok <=> (vl_v >= -8388608 /\ vl_v <= 8388607))

\* isValid() has been asked of the first integer above the range
C22_JustAboveRangeAsked ==
    /\ vl_last.op = "isValid"
    /\ vl_v = 8388608

\* C23: isSaturated() is true exactly for v = -0x800000 and v = 0x7FFFFF,
\* so a saturated value is valid.
C23_IsSaturatedIffAtAnEnd ==
    vl_last.op = "isSaturated"
        => /\ vl_last.ok <=> (vl_v = -8388608 \/ vl_v = 8388607)
           /\ vl_last.ok => isValid(vl_v)

\* C24: a default-constructed Value is not valid, and differs from every
\* value decoded from the chip.
C24_DefaultValueNotValid ==
    vl_last.op = "Value()"
        => /\ ~vl_last.ok
           /\ vl_last.ret # convertFromTwosComplement(TwosComp(vl_bytes))
           /\ (isValid(vl_v)
                 => vl_last.ret
                      # convertFromTwosComplement(EncodeTwosComplement(vl_v)))

\* a Value has been default-constructed
C24_DefaultConstructed ==
    /\ vl_last.op = "Value()"
    /\ vl_last.ret = Int32Min

\* C25: a conversion read makes exactly PULSES[gain] clock pulses, 25 for
\* gain 128, 26 for gain 32, 27 for gain 64: 24 data pulses and 1, 2 or 3
\* trailing ones; a pulse is a clock-high write followed by a clock-low
\* write, and the clock is low when the read ends.
C25_PulsesPerRead ==
    \A t \in Threads :
        /\ cm_pc[t] \in {"unlock", "swap"}
              => /\ cm_n[t] = (CASE hx_gain = "GAIN_128" -> 25
                                 [] hx_gain = "GAIN_32" -> 26
                                 [] hx_gain = "GAIN_64" -> 27)
                 /\ cm_n[t] - 24 \in {1, 2, 3}
        /\ cm_pc[t] = "unlock" => cm_clock = 0
        /\ cm_pc[t] \in {"sample", "low"} => cm_clock = 1
        /\ cm_pc[t] \in {"high", "sample", "low"}
              => cm_n[t] < 24 + (CASE hx_gain = "GAIN_128" -> 1
                                   [] hx_gain = "GAIN_32" -> 2
                                   [] hx_gain = "GAIN_64" -> 3)

\* a read of a known conversion has finished under gain 64
C25_ReadDoneWithGain64 ==
    \E t \in Threads :
        /\ cm_pc[t] = "unlock"
        /\ hx_gain = "GAIN_64"
        /\ cm_n[t] = 27
        /\ cm_frame[t] = {1193046}

\* C26: the median of a non-empty list is the element itself for one
\* element, the mean of the two middle order statistics for an even count
\* and the middle order statistic for an odd count, whatever the order of
\* the list.
C26_MedianIsMiddleOrderStatistic ==
    LET n == Len(md_vals)
        below(x) == Cardinality({i \in 1..n : md_vals[i] < x})
        upTo(x) == Cardinality({i \in 1..n : md_vals[i] <= x})
        isStat(x, k) == below(x) < k /\ k <= upTo(x)
        elems == {md_vals[i] : i \in 1..n}
        ret == md_last.ret
        swapped(i, j) == [md_vals EXCEPT ![i] = md_vals[j], ![j] = md_vals[i]]
    IN  md_last.op = "median"
          => /\ ret[2] > 0
             /\ n = 1 => ret[1] = md_vals[1] * ret[2]
             /\ (n > 1 /\ n % 2 = 0)
                   => \E x \in elems : \E y \in elems :
                         /\ isStat(x, n \div 2)
                         /\ isStat(y, n \div 2 + 1)
                         /\ 2 * ret[1] = (x + y) * ret[2]
             /\ (n > 1 /\ n % 2 = 1)
                   => \E x \in elems :
                         /\ isStat(x, n \div 2 + 1)
                         /\ ret[1] = x * ret[2]
             /\ \A i \in 1..n : \A j \in 1..n :
                    median(swapped(i, j))[1] * ret[2]
                      = ret[1] * median(swapped(i, j))[2]

\* the median has been taken of an even number of readings that were not
\* in ascending order
C26_MedianOfUnsortedEvenList ==
    /\ md_last.op = "median"
    /\ Len(md_vals) = 4
    /\ md_vals[1] > md_vals[2]
    /\ md_vals[2] < md_vals[3]
    /\ md_vals[3] > md_vals[4]

\* C27: a sample count of 0 is rejected with an error before the watcher
\* state is changed, the value buffer touched or the hardware accessed.
C27_ZeroSamplesRejected ==
    /\ hx_len = 0
          => /\ hx_fpc \in {"idle", "setNormal"}
             /\ hx_result # "returned"
    /\ (wx_call = "samples" /\ wx_samples = 0)
          => /\ wx_fpc = "idle"
             /\ wx_result = "range_error"

\* C28: Mass::convert round-trips: convert(convert(x, A, B), B, A) = x for
\* every amount x and all units A and B, and convert(x, U, U) = x.
C28_ConvertRoundTrips ==
    /\ ms_last.op = "roundtrip" => ms_last.num = ms_a.ug
    /\ (ms_last.op = "convert" /\ ms_a.u = ms_b.u) => ms_last.num = ms_a.ug

\* C29: the canonical amount of a + b is the sum of the canonical amounts
\* of a and b and its unit is the unit of a; likewise for -, * and / (the
\* amount of b not 0).
C29_ArithmeticOnCanonicalAmount ==
    ms_last.err = "none"
        => /\ ms_last.op \in {"+", "-", "*", "/"} => ms_last.mass.u = ms_a.u
           /\ ms_last.op = "+" => ms_last.mass.ug = NumAdd(ms_a.ug, ms_b.ug)
           /\ ms_last.op = "-" => ms_last.mass.ug = NumSub(ms_a.ug, ms_b.ug)
           /\ ms_last.op = "*" => ms_last.mass.ug = NumMul(ms_a.ug, ms_b.ug)
           /\ ms_last.op = "/" => ms_last.mass.ug = NumDiv(ms_a.ug, ms_b.ug)

\* C30: when HX711::getValues(arr, n) returns normally, exactly n elements
\* were written, each is a reading the watcher published, and they are
\* strictly increasing in production order: none is delivered twice.
C30_DistinctReadingsInOrder ==
    (hx_fpc = "idle" /\ hx_result = "returned")
        => /\ Len(hx_arr) = hx_len
           /\ \A i \in 1..Len(hx_arr) : hx_arr[i] \in 1..chipSeq
           /\ \A i \in 1..(Len(hx_arr) - 1) : hx_arr[i] < hx_arr[i + 1]

\* C31: Watcher::_recoverHX711 returns on the first read that succeeds and
\* on the first read attempt that fails at or after its deadline, the entry
\* time plus maxWait; it never loops past that point and the watch state
\* does not change while it runs.
C31_RecoveryIsBounded ==
    [][/\ WXW_Recover("value") => wx_wpc' = "switch"
       /\ (wx_wpc = "recover" /\ wx_gpioOps' # wx_gpioOps
               /\ now >= wx_whenExceeded) => wx_wpc' # "recover"
       /\ (wx_wpc = "readValue" /\ wx_wpc' = "recover")
              => wx_whenExceeded' = now + RecoverTicks
       /\ wx_wpc = "recover"
              => /\ wx_watchState' = wx_watchState
                 /\ wx_whenExceeded' = wx_whenExceeded]_vars

C31_RecoveringPastDeadline ==
    /\ wx_wpc = "recover"
    /\ now >= wx_whenExceeded
    /\ wx_watchState = "NORMAL"

C33_StateLockReleasedBeforeSleep ==
    /\ hx_wpc \in {"top", "pauseSleep", "notReadySleep", "pollSleep"}
          => hx_pinWatchLock # "watcher"
    /\ wx_wpc \in {"switch", "lockState", "pauseSleep", "notReadyDelay",
                    "pollSleep"}
          => wx_pinWatchLock # "watcher"

C33_AsleepAfterNotReady ==
    /\ hx_wpc = "notReadySleep"
    /\ hx_watchState = "NORMAL"
    /\ hx_readyLock = "watcher"

\* C34: after the watch state is set to END the watcher thread eventually
\* leaves its loop and terminates, from whatever point of the loop it is at.
C34_WatcherExitsAfterEnd ==
    /\ (hx_watchState = "END") ~> (hx_wpc = "ended")
    /\ (wx_watchState = "END") ~> (wx_wpc \in {"ended", "terminated"})

\* C35: the watcher thread and a foreground caller never deadlock: in no
\* reachable state is the watcher blocked on a mutex the caller holds while
\* the caller is blocked on a mutex the watcher holds; a caller that waits
\* for a lock holds no other lock.
C35_NoDeadlock ==
    LET hxWatcherBlocked == hx_wpc = "lockReady" /\ hx_readyLock = "fg"
        hxCallerOnState == hx_fpc \in {"setNormal", "setPause"}
        hxCallerOnReady ==
            hx_fpc = "lock" \/ (hx_fpc = "waiting" /\ hx_signal # "none")
        hxCallerBlocked ==
            \/ hxCallerOnState /\ hx_pinWatchLock = "watcher"
            \/ hxCallerOnReady /\ hx_readyLock = "watcher"
        wxWatcherBlocked == wx_wpc = "lockValues" /\ wx_valuesLock = "fg"
        wxCallerOnState == wx_fpc \in {"watch", "pause"}
        wxCallerOnValues == wx_fpc = "lockValues"
        wxCallerBlocked ==
            \/ wxCallerOnState /\ wx_pinWatchLock = "watcher"
            \/ wxCallerOnValues /\ wx_valuesLock = "watcher"
    IN  /\ ~(hxWatcherBlocked /\ hxCallerBlocked)
        /\ ~(wxWatcherBlocked /\ wxCallerBlocked)
        /\ (hxCallerOnState \/ hxCallerOnReady) => hx_readyLock # "fg"
        /\ (wxCallerOnState \/ wxCallerOnValues) => wx_valuesLock # "fg"

C35_WatcherWaitsForCallersLock ==
    /\ hx_wpc = "lockReady"
    /\ hx_pinWatchLock = "watcher"
    /\ hx_readyLock = "fg"

\* C36: neither AdvancedHX711::getValues overload calls ValueStack::pop on
\* an empty stack, whatever the watcher pushes and evicts between the
\* caller's unlocked empty() and its locked drain loop.
C36_NoPopFromEmptyStack ==
    [][(wx_fpc = "drain" /\ wx_vals' # wx_vals)
          => /\ ~VS_empty(wx_values)
             /\ wx_valuesLock = "fg"
             /\ wx_vals' = Append(wx_vals, wx_values[1].val)]_vars

\* the drain loop has emptied the stack before the count is met
C36_DrainedBeforeCountMet ==
    /\ wx_fpc = "drain"
    /\ wx_call = "samples"
    /\ VS_empty(wx_values)
    /\ wx_vals # <<>>
    /\ Len(wx_vals) < wx_samples

\* C37: every element HX711::getValues has written when it returns
\* normally is a valid reading the watcher stored; the invalid default that
\* _lastVal holds before the first read is never delivered.
C37_OnlyValidReadingsDelivered ==
    (hx_fpc = "idle" /\ hx_result = "returned")
        => \A i \in 1..Len(hx_arr) :
              /\ isValid(hx_arr[i])
              /\ hx_arr[i] # Int32Min

\* C38: a push onto a stack that holds fewer than maxSize entries, all of
\* them younger than maxAge, leaves those entries in place behind the new
\* one: nothing is discarded.
C38_PushKeepsYoungEntries ==
    [][(/\ vs_last'.op = "push"
        /\ <<vs_container, vs_last>>' # <<vs_container, vs_last>>
        /\ Len(vs_container) < vs_maxSize
        /\ \A i \in 1..Len(vs_container) :
               vs_now - vs_container[i].when < vs_maxAge)
          => /\ Len(vs_container') = Len(vs_container) + 1
             /\ Tail(vs_container') = vs_container]_vars


\* C39: when powerUp() has returned, channel, gain and rate are what they
\* were when the call was made, and the settling sleep it took is the one
\* for the rate configured before the call.
C39_PowerUpKeepsConfig ==
    pu_result = "returned"
        => /\ hx_channel = pu_pre.channel
           /\ hx_gain = pu_pre.gain
           /\ hx_rate = pu_pre.rate
           /\ pu_settle = SettleFor(pu_pre.rate)

\* powerUp() has returned on a driver set to a gain other than 128 and a
\* rate of 80 Hz
C39_PoweredUpAtOtherGain ==
    /\ pu_result = "returned"
    /\ pu_pre.gain # "GAIN_128"
    /\ pu_pre.rate = "HZ_80"

=========================================================================
